---- MODULE Spec2Model ----
(***************************************************************************)
(* Threshold key custody of the enclave wallet application.                *)
(*                                                                         *)
(* KeyManager (keyManager.ts), TransactionSigner (signer.ts) and the       *)
(* enclave HTTP handlers (index.ts) are modelled over a scaled-down        *)
(* arithmetic: a secret is one "byte", a byte is an element of the prime   *)
(* field of FieldOrder elements (the library works byte-wise in GF(256)),  *)
(* and the signature curve is a cyclic group of prime order CurveOrder     *)
(* (secp256k1 has prime order n < 2^256, so some byte strings are not      *)
(* valid keys; here the bytes 0, CurveOrder .. FieldOrder-1 are not).      *)
(*                                                                         *)
(* SpecKM : the KeyManager methods called directly, with any arguments.    *)
(* Spec   : the enclave server: start() and the HTTP handlers.             *)
(* FairSpec : Spec in which every request the host sends is served.        *)
(***************************************************************************)
EXTENDS Integers, Naturals, Sequences, FiniteSets, TLC

\* ------------------------------------------------------------------ bounds
\* largest private key byte a caller passes to splitPrivateKey
MaxKey == 1
\* the random polynomial coefficients are drawn from 0 .. MaxCoef
MaxCoef == 1
\* rotations of the share coordinates 1 .. numShares the library draws from
CoordinateShifts == { 0 }

\* --------------------------------------------------- library arithmetic
\* number of elements of the field the shares live in (GF(256) in the library)
FieldOrder == 7
\* order of the signature group: a private key k is valid iff 0 < k < CurveOrder
CurveOrder == 5
\* generator of the signature group (publicKey = k * G)
Generator == 2

Byte == 0 .. (FieldOrder - 1)

FAdd(a, b) == (a + b) % FieldOrder
FSub(a, b) == (a + FieldOrder - b) % FieldOrder
FMul(a, b) == (a * b) % FieldOrder
FInv(a) == CHOOSE z \in 1 .. (FieldOrder - 1) : FMul(a, z) = 1
FDiv(a, b) == FMul(a, FInv(b))

\* value at x of the polynomial with coefficients coefs[1] + coefs[2] x + ...
RECURSIVE EvalPoly(_, _)
EvalPoly(coefs, x) ==
  IF coefs = << >> THEN 0
  ELSE FAdd(Head(coefs), FMul(x, EvalPoly(Tail(coefs), x)))

\* the i-th share coordinate: distinct and non-zero for i <= FieldOrder - 1
Coordinate(i, shift) == ((i - 1 + shift) % (FieldOrder - 1)) + 1

\* sss.split : a share is the bytes <<y, x>>, the coordinate is the last byte
sssSplit(secret, numShares, threshold, rnd, shift) ==
  [i \in 1 .. numShares |->
     << EvalPoly(<<secret>> \o rnd, Coordinate(i, shift)), Coordinate(i, shift) >>]

\* the parameters sss.split accepts
sssSplitAccepts(numShares, threshold) ==
  /\ threshold >= 2
  /\ numShares >= threshold
  /\ numShares <= FieldOrder - 1

\* Lagrange basis polynomial of point i evaluated at 0
RECURSIVE Basis(_, _, _)
Basis(xs, i, j) ==
  IF j > Len(xs) THEN 1
  ELSE IF j = i THEN Basis(xs, i, j + 1)
  ELSE FMul(FDiv(FSub(0, xs[j]), FSub(xs[i], xs[j])), Basis(xs, i, j + 1))

RECURSIVE Interpolate(_, _, _)
Interpolate(xs, ys, i) ==
  IF i > Len(xs) THEN 0
  ELSE FAdd(FMul(ys[i], Basis(xs, i, 1)), Interpolate(xs, ys, i + 1))

\* the buffers sss.combine accepts: at least two, all of one length >= 2,
\* with pairwise different coordinates
sssCombineAccepts(bufs) ==
  /\ Len(bufs) >= 2
  /\ \A i \in 1 .. Len(bufs) : Len(bufs[i]) = 2
  /\ \A i, j \in 1 .. Len(bufs) : i # j => bufs[i][2] # bufs[j][2]

\* sss.combine : interpolates the secret at 0 through every share given
sssCombine(bufs) ==
  << Interpolate([i \in 1 .. Len(bufs) |-> bufs[i][2]],
                 [i \in 1 .. Len(bufs) |-> bufs[i][1]], 1) >>

\* ---------------------------------------------------------- conversions
\* a hex string is a sequence of hex digits 0 .. 15; -1 stands for a
\* character that is not a hex digit.  Buffer.from(s, 'hex') decodes two
\* digits to a byte and stops at the first pair that is not hex,
\* buffer.toString('hex') encodes every byte as two digits.
RECURSIVE BufferFromHex(_)
BufferFromHex(s) ==
  IF Len(s) < 2 \/ s[1] < 0 \/ s[2] < 0 THEN << >>
  ELSE <<16 * s[1] + s[2]>> \o BufferFromHex(Tail(Tail(s)))

RECURSIVE ToHex(_)
ToHex(buf) ==
  IF buf = << >> THEN << >>
  ELSE <<Head(buf) \div 16, Head(buf) % 16>> \o ToHex(Tail(buf))

\* a key string with or without its "0x" prefix
KeyString(prefixed, hex) == [prefixed |-> prefixed, hex |-> hex]

\* new ethers.Wallet(privateKey) throws unless the key is 0x-prefixed hex
\* of the key length and in the range of the curve
WalletAccepts(privateKey) ==
  /\ privateKey.prefixed
  /\ Len(privateKey.hex) = 2
  /\ Len(BufferFromHex(privateKey.hex)) = 1
  /\ BufferFromHex(privateKey.hex)[1] > 0
  /\ BufferFromHex(privateKey.hex)[1] < CurveOrder

\* wallet.publicKey
WalletPublicKey(privateKey) ==
  [point |-> (BufferFromHex(privateKey.hex)[1] * Generator) % CurveOrder]

\* ethers.utils.computeAddress(publicKey): the checksummed (mixed-case) form
computeAddress(publicKey) ==
  [id |-> (3 * publicKey.point + 1) % CurveOrder, form |-> "mixed"]

\* wallet.address
WalletAddress(privateKey) == computeAddress(WalletPublicKey(privateKey))

\* String.prototype.toLowerCase on an address
toLowerCase(address) == [id |-> address.id, form |-> "lower"]

AddressForms == {"mixed", "lower", "upper"}
Addresses == [id : 0 .. (CurveOrder - 1), form : AddressForms]

\* ------------------------------------------------------ program constants
\* reconstructPrivateKey refuses fewer shares than this
ReconstructMinimum == 3
\* the configuration /generate-keys splits with
SplitThreshold == 3
SplitShares == 5

\* ------------------------------------------------------------ the state
VARIABLES
  initialized,   \* KeyManager.initialized
  keyCache,      \* KeyManager.keyCache : lower-case address -> private key
  ret,           \* what the last KeyManager call returned or threw
  call,          \* the arguments of that call (for a share list: how many
                 \* shares, how they were picked, and the split they came from)
  resp,          \* the last response the server sent to the host
  hostShares,    \* the shares of the last /generate-keys response, kept by the host
  phase,         \* the server: "starting", "listening" or "exited"
  measurements,  \* AttestationProvider.measurements
  attestationInitialized,  \* AttestationProvider.initialized
  messageQueue,  \* CommunicationManager.messageQueue : message id -> message
  isInitialized, \* CommunicationManager.isInitialized
  env,           \* process.env, fixed when the process starts
  now,           \* Date.now(), in milliseconds
  inflight       \* the requests being served: for each, the body received,
                 \* the handler's position and its local privateKey

\* the requests the server can have in flight at a time, and a free one
Slots == {1, 2}
Idle == [pc |-> "idle"]

\* the fields of the AttestationProvider and of the CommunicationManager,
\* and what the runtime holds: the environment, the clock, the event loop
apVars == <<measurements, attestationInitialized>>
cmVars == <<messageQueue, isInitialized>>
osVars == <<env, now, inflight>>

vars == <<initialized, keyCache, ret, call, resp, hostShares, phase,
          apVars, cmVars, osVars>>

NoVal == [kind |-> "none"]
Void == [kind |-> "void"]
Null == [kind |-> "null"]

Returned(op, val) == [op |-> op, val |-> val, ok |-> TRUE, error |-> ""]
Threw(op, error) == [op |-> op, val |-> NoVal, ok |-> FALSE, error |-> error]

EmptyCache == [a \in {} |-> 0]

\* Map.prototype.set
MapSet(map, key, value) ==
  [k \in DOMAIN map \cup {key} |-> IF k = key THEN value ELSE map[k]]

\* Map.prototype.delete
MapDelete(map, key) == [k \in DOMAIN map \ {key} |-> map[k]]

\* --------------------------------------------------- KeyManager methods
\* Each method is an operator from its arguments (and the random bytes it
\* draws) to [ret, cache]: what it returns or throws and the cache after it.

\* the messages of the KeyManagerError each method throws
ErrNotInitialized == "KeyManager not initialized"
ErrGenerate == "Failed to generate key pair"
ErrSplit == "Failed to split private key"
ErrInsufficientShares ==
  "Failed to reconstruct private key: Insufficient shares for reconstruction (minimum 3 required)"
ErrCombine == "Failed to reconstruct private key: combine failed"
ErrInvalidReconstruction ==
  "Failed to reconstruct private key: Reconstructed private key is invalid"

\* KeyManager.initialize
initializeOutcome(sodiumLoaded, production, enclaveMode, linux) ==
  IF ~sodiumLoaded
    THEN Threw("initialize", "Failed to initialize KeyManager: Failed to initialize sodium cryptography")
  ELSE IF production /\ ~(enclaveMode \/ linux)
    THEN Threw("initialize", "Failed to initialize KeyManager: Not running in a secure enclave environment")
  ELSE Returned("initialize", Void)

\* generateKeyPair without its initialization guard
generateKeyPairUngated(wasInitialized, randomBytes32) ==
  IF ~WalletAccepts(KeyString(TRUE, ToHex(randomBytes32)))
    THEN Threw("generateKeyPair", ErrGenerate)
  ELSE Returned("generateKeyPair",
         [privateKey |-> KeyString(TRUE, ToHex(randomBytes32)),
          publicKey |-> WalletPublicKey(KeyString(TRUE, ToHex(randomBytes32))),
          kind |-> "keyPair"])

\* KeyManager.generateKeyPair
\* randomBytes32 is the buffer of random bytes it draws
generateKeyPair(wasInitialized, randomBytes32) ==
  IF ~wasInitialized
    THEN Threw("generateKeyPair", ErrNotInitialized)
  ELSE IF ~WalletAccepts(KeyString(TRUE, ToHex(randomBytes32)))
    THEN Threw("generateKeyPair", ErrGenerate)
  ELSE Returned("generateKeyPair",
         [privateKey |-> KeyString(TRUE, ToHex(randomBytes32)),
          publicKey |-> WalletPublicKey(KeyString(TRUE, ToHex(randomBytes32))),
          kind |-> "keyPair"])

\* splitPrivateKey asking the library for threshold-many shares
splitPrivateKeyThresholdShares(privateKey, config, rnd, shift) ==
  LET privateKeyBuffer == BufferFromHex(privateKey.hex)
  IN  IF privateKeyBuffer = << >> \/ ~sssSplitAccepts(config.numShares, config.threshold)
        THEN Threw("splitPrivateKey", ErrSplit)
      ELSE LET shares == sssSplit(privateKeyBuffer[1], config.threshold,
                                  config.threshold, rnd, shift)
           IN  Returned("splitPrivateKey",
                 [kind |-> "shares",
                  shares |-> [i \in 1 .. Len(shares) |-> ToHex(shares[i])]])

\* KeyManager.splitPrivateKey
splitPrivateKey(privateKey, config, rnd, shift) ==
  LET privateKeyBuffer == BufferFromHex(privateKey.hex)
  IN  IF privateKeyBuffer = << >> \/ ~sssSplitAccepts(config.numShares, config.threshold)
        THEN Threw("splitPrivateKey", ErrSplit)
      ELSE LET shares == sssSplit(privateKeyBuffer[1], config.numShares,
                                  config.threshold, rnd, shift)
           IN  Returned("splitPrivateKey",
                 [kind |-> "shares",
                  shares |-> [i \in 1 .. Len(shares) |-> ToHex(shares[i])]])

\* reconstructPrivateKey caching the combined bytes without validating them
reconstructPrivateKeyUnvalidated(cache, shares) ==
  LET shareBuffers == [i \in 1 .. Len(shares) |-> BufferFromHex(shares[i].encryptedShare)]
      privateKey == KeyString(TRUE, ToHex(sssCombine(shareBuffers)))
  IN  IF Len(shares) < ReconstructMinimum
        THEN [ret |-> Threw("reconstructPrivateKey", ErrInsufficientShares),
              cache |-> cache]
      ELSE IF ~sssCombineAccepts(shareBuffers)
        THEN [ret |-> Threw("reconstructPrivateKey", ErrCombine),
              cache |-> cache]
      ELSE [ret |-> Returned("reconstructPrivateKey",
                [privateKey |-> privateKey, kind |-> "privateKey"]),
            cache |-> MapSet(cache, toLowerCase(WalletAddress(privateKey)), privateKey)]

\* KeyManager.reconstructPrivateKey
reconstructPrivateKey(cache, shares) ==
  LET shareBuffers == [i \in 1 .. Len(shares) |-> BufferFromHex(shares[i].encryptedShare)]
      privateKey == KeyString(TRUE, ToHex(sssCombine(shareBuffers)))
  IN  IF Len(shares) < ReconstructMinimum
        THEN [ret |-> Threw("reconstructPrivateKey", ErrInsufficientShares),
              cache |-> cache]
      ELSE IF ~sssCombineAccepts(shareBuffers)
        THEN [ret |-> Threw("reconstructPrivateKey", ErrCombine),
              cache |-> cache]
      ELSE IF ~WalletAccepts(privateKey)
        THEN [ret |-> Threw("reconstructPrivateKey", ErrInvalidReconstruction),
              cache |-> cache]
      ELSE [ret |-> Returned("reconstructPrivateKey",
                [privateKey |-> privateKey, kind |-> "privateKey"]),
            cache |-> MapSet(cache, toLowerCase(WalletAddress(privateKey)), privateKey)]

\* KeyManager.getPublicKeyFromPrivate
getPublicKeyFromPrivate(privateKey) == WalletPublicKey(privateKey)

\* KeyManager.getAddressFromPublicKey
getAddressFromPublicKey(publicKey) == computeAddress(publicKey)

\* getCachedPrivateKey looking the address up as given
getCachedPrivateKeyCaseSensitive(cache, walletAddress) ==
  IF walletAddress \in DOMAIN cache
    THEN Returned("getCachedPrivateKey",
           [privateKey |-> cache[walletAddress], kind |-> "privateKey"])
    ELSE Returned("getCachedPrivateKey", Null)

\* KeyManager.getCachedPrivateKey
getCachedPrivateKey(cache, walletAddress) ==
  IF toLowerCase(walletAddress) \in DOMAIN cache
    THEN Returned("getCachedPrivateKey",
           [privateKey |-> cache[toLowerCase(walletAddress)], kind |-> "privateKey"])
    ELSE Returned("getCachedPrivateKey", Null)

\* clearCachedKey deleting the address as given
clearCachedKeyCaseSensitive(cache, walletAddress) ==
  [ret |-> Returned("clearCachedKey", Void),
   cache |-> MapDelete(cache, walletAddress)]

\* KeyManager.clearCachedKey
clearCachedKey(cache, walletAddress) ==
  [ret |-> Returned("clearCachedKey", Void),
   cache |-> MapDelete(cache, toLowerCase(walletAddress))]

\* KeyManager.clearAllCachedKeys
clearAllCachedKeys(cache) ==
  [ret |-> Returned("clearAllCachedKeys", Void), cache |-> EmptyCache]

\* ------------------------------------------------------- argument sets
\* the random coefficients sss.split draws for a threshold
RECURSIVE Coefficients(_)
Coefficients(n) ==
  IF n = 0 THEN { << >> }
  ELSE { <<c>> \o r : c \in 0 .. MaxCoef, r \in Coefficients(n - 1) }

\* key strings a caller passes to splitPrivateKey: 0 is not a valid key,
\* one key comes without the 0x prefix, one string is not hex at all
SplitKeys ==
  { KeyString(TRUE, ToHex(<<k>>)) : k \in 0 .. MaxKey }
    \cup { KeyString(FALSE, ToHex(<<1>>)), KeyString(TRUE, <<-1, -1>>) }

\* thresholds a caller passes to splitPrivateKey: 1, 2, the server's
\* threshold and one more
ThresholdInputs == { 1, 2, SplitThreshold, SplitThreshold + 1 }

\* share counts a caller passes to splitPrivateKey: below the server's
\* threshold, the server's count, and more than the field has coordinates
NumSharesInputs == { SplitThreshold - 1, SplitShares, FieldOrder }

\* the elements of seq at the positions in S, in order
RECURSIVE Pick(_, _, _)
Pick(seq, S, i) ==
  IF i > Len(seq) THEN << >>
  ELSE (IF i \in S THEN <<seq[i]>> ELSE << >>) \o Pick(seq, S, i + 1)

PickModes == {"asis", "dup", "malformed"}

\* the share list a caller builds from the shares a split returned: the
\* shares at the positions S as {index, encryptedShare}, as they are, or
\* with the first one sent twice, or with the first one not hex
ShareList(hexShares, S, mode) ==
  LET all == [i \in 1 .. Len(hexShares) |->
                [encryptedShare |-> hexShares[i], index |-> i - 1]]
      picked == Pick(all, S, 1)
  IN  IF mode = "dup" /\ picked # << >> THEN picked \o <<Head(picked)>>
      ELSE IF mode = "malformed" /\ picked # << >>
        THEN <<[encryptedShare |-> <<-1, -1>>, index |-> Head(picked).index]>>
               \o Tail(picked)
      ELSE picked

NoCall == [op |-> "none"]
NoResp == [op |-> "none", error |-> "", success |-> FALSE, data |-> NoVal]

\* ------------------------------------------- SpecKM : the KeyManager API
InitKM ==
  /\ initialized = FALSE
  /\ keyCache = EmptyCache
  /\ ret = Returned("none", NoVal)
  /\ call = NoCall
  /\ resp = NoResp
  /\ hostShares = << >>
  /\ phase = "starting"
  /\ measurements = Null
  /\ attestationInitialized = FALSE
  /\ messageQueue = EmptyCache
  /\ isInitialized = FALSE
  /\ env = [NODE_ENV |-> "development", ENCLAVE_MODE |-> "false",
            ENCLAVE_MEASUREMENT_SEED |-> ""]
  /\ now = 0
  /\ inflight = [r \in Slots |-> Idle]

Initialize ==
  \E sodiumLoaded, production, enclaveMode, linux \in BOOLEAN :
    /\ ret' = initializeOutcome(sodiumLoaded, production, enclaveMode, linux)
    /\ initialized' = (initialized \/ ret'.ok)
    /\ call' = [op |-> "initialize"]
    /\ UNCHANGED <<apVars, cmVars, osVars, keyCache, resp, hostShares, phase>>

GenerateKeyPair ==
  \E b \in Byte :
    /\ ret' = generateKeyPair(initialized, <<b>>)
    /\ call' = [op |-> "generateKeyPair"]
    /\ UNCHANGED <<apVars, cmVars, osVars, initialized, keyCache, resp, hostShares, phase>>

SplitPrivateKey ==
  \E privateKey \in SplitKeys, threshold \in ThresholdInputs,
     numShares \in NumSharesInputs, shift \in CoordinateShifts :
    \E rnd \in Coefficients(threshold - 1) :
      /\ ret' = splitPrivateKey(privateKey,
                   [numShares |-> numShares, threshold |-> threshold], rnd, shift)
      /\ call' = [numShares |-> numShares, threshold |-> threshold,
                  privateKey |-> privateKey, op |-> "splitPrivateKey"]
      /\ UNCHANGED <<apVars, cmVars, osVars, initialized, keyCache, resp, hostShares, phase>>

\* the caller reconstructs from the shares the split before returned
ReconstructPrivateKey ==
  /\ ret.op = "splitPrivateKey"
  /\ ret.ok
  /\ \E S \in SUBSET (1 .. Len(ret.val.shares)), mode \in PickModes :
      \E shares \in { ShareList(ret.val.shares, S, mode) } :
      \E out \in { reconstructPrivateKey(keyCache, shares) } :
           /\ (S = {} => mode = "asis")
           /\ ret' = out.ret
           /\ keyCache' = out.cache
           /\ call' = [op |-> "reconstructPrivateKey", mode |-> mode,
                       count |-> Len(shares), fromKey |-> call.privateKey,
                       fromThreshold |-> call.threshold,
                       sizeBefore |-> Cardinality(DOMAIN keyCache)]
           /\ UNCHANGED <<apVars, cmVars, osVars, initialized, resp, hostShares, phase>>

GetCachedPrivateKey ==
  \E walletAddress \in Addresses :
    /\ ret' = getCachedPrivateKey(keyCache, walletAddress)
    /\ call' = [op |-> "getCachedPrivateKey", walletAddress |-> walletAddress]
    /\ UNCHANGED <<apVars, cmVars, osVars, initialized, keyCache, resp, hostShares, phase>>

ClearCachedKey ==
  \E walletAddress \in Addresses :
    /\ ret' = clearCachedKey(keyCache, walletAddress).ret
    /\ keyCache' = clearCachedKey(keyCache, walletAddress).cache
    /\ call' = [op |-> "clearCachedKey", walletAddress |-> walletAddress,
                sizeBefore |-> Cardinality(DOMAIN keyCache)]
    /\ UNCHANGED <<apVars, cmVars, osVars, initialized, resp, hostShares, phase>>

ClearAllCachedKeys ==
  /\ ret' = clearAllCachedKeys(keyCache).ret
  /\ keyCache' = clearAllCachedKeys(keyCache).cache
  /\ call' = [op |-> "clearAllCachedKeys",
              sizeBefore |-> Cardinality(DOMAIN keyCache)]
  /\ UNCHANGED <<apVars, cmVars, osVars, initialized, resp, hostShares, phase>>

NextKM ==
  \/ Initialize
  \/ GenerateKeyPair
  \/ SplitPrivateKey
  \/ ReconstructPrivateKey
  \/ GetCachedPrivateKey
  \/ ClearCachedKey
  \/ ClearAllCachedKeys

SpecKM == InitKM /\ [][NextKM]_vars

\* ------------------------------------------------- TransactionSigner
\* a transaction request: which of the optional fee fields are present
Transaction(gasPrice, maxFeePerGas, maxPriorityFeePerGas) ==
  [gasPrice |-> gasPrice, maxFeePerGas |-> maxFeePerGas, maxPriorityFeePerGas |-> maxPriorityFeePerGas,
   to |-> "0xabc"]

\* the fee fields signTransaction copies into the transaction it signs
FeeModel(transaction) ==
  IF transaction.maxFeePerGas /\ transaction.maxPriorityFeePerGas THEN "eip1559"
  ELSE IF transaction.gasPrice THEN "legacy"
  ELSE "none"

\* wallet.signTransaction: the serialized transaction with its signature,
\* a signature being verifiable against the public key of the signing key
SerializeSigned(tx, privateKey) ==
  [to |-> tx.to, fee |-> tx.fee, signedBy |-> WalletPublicKey(privateKey)]

\* a recovery that gives the sender address in lower case
RecoverFromLowerCase(rawTransaction) ==
  toLowerCase(computeAddress(rawTransaction.signedBy))

\* ethers.utils.parseTransaction(signedTx).from : the address recovered
\* from the signature
RecoverFrom(rawTransaction) == computeAddress(rawTransaction.signedBy)

\* ethers.utils.parseTransaction(signedTx).hash
TransactionHash(rawTransaction) == [keccak |-> rawTransaction]

ErrSign == "Failed to sign transaction"

\* the recipient strings wallet.signTransaction takes for an address; on
\* any other it throws
getAddressAccepts(to) == to \in {"0xabc", "0xdef"}

\* TransactionSigner.signTransaction
signTransaction(transaction, privateKey) ==
  IF ~WalletAccepts(privateKey)
    THEN Threw("signTransaction", ErrSign)
  ELSE IF ~getAddressAccepts(transaction.to)
    THEN Threw("signTransaction", ErrSign)
  ELSE LET tx == [to |-> transaction.to, fee |-> FeeModel(transaction)]
           signedTx == SerializeSigned(tx, privateKey)
       IN  Returned("signTransaction",
             [kind |-> "signedTransaction",
              to |-> signedTx.to,
              fee |-> signedTx.fee,
              rawTransaction |-> signedTx,
              hash |-> TransactionHash(signedTx),
              from |-> RecoverFrom(signedTx)])

ErrBatch == "Failed to batch sign transactions: Failed to sign transaction"

\* a batch loop that leaves out the requests that fail and goes on
RECURSIVE batchSignSkipping(_, _, _, _)
batchSignSkipping(transactions, privateKey, signedTransactions, signCalls) ==
  IF transactions = <<>>
    THEN [ret |-> Returned("batchSignTransactions", signedTransactions),
          signCalls |-> signCalls]
  ELSE LET signed == signTransaction(Head(transactions), privateKey)
       IN  batchSignSkipping(Tail(transactions), privateKey,
             IF signed.ok THEN Append(signedTransactions, signed.val)
                          ELSE signedTransactions,
             signCalls + 1)

batchSignTransactionsPartial(transactions, privateKey) ==
  batchSignSkipping(transactions, privateKey, <<>>, 0)

\* the for loop of batchSignTransactions over the requests left, with the
\* list signed so far and the number of signTransaction calls made
RECURSIVE batchSignLoop(_, _, _, _)
batchSignLoop(transactions, privateKey, signedTransactions, signCalls) ==
  IF transactions = <<>>
    THEN [ret |-> Returned("batchSignTransactions", signedTransactions),
          signCalls |-> signCalls]
  ELSE LET signed == signTransaction(Head(transactions), privateKey)
       IN  IF ~signed.ok
             THEN [ret |-> Threw("batchSignTransactions", ErrBatch),
                   signCalls |-> signCalls + 1]
           ELSE batchSignLoop(Tail(transactions), privateKey,
                  Append(signedTransactions, signed.val), signCalls + 1)

\* TransactionSigner.batchSignTransactions: its result and the number of
\* requests it passed to signTransaction
batchSignTransactions(transactions, privateKey) ==
  batchSignLoop(transactions, privateKey, <<>>, 0)

\* Number.prototype.toString: the string of the decimal digits of a number
DecimalString(number) == [decimal |-> number]

BaseGas == 21000
GasPerByte == 16
ExecutionGas == 50000

\* estimateGas that charges every character after the prefix as a byte
estimateGasPerCharacter(transaction) ==
  IF /\ "data" \in DOMAIN transaction
     /\ transaction.data # <<"0", "x">>
     /\ Len(transaction.data) > 2
    THEN Returned("estimateGas",
           DecimalString(BaseGas + (Len(transaction.data) - 2) * GasPerByte
                           + ExecutionGas))
  ELSE Returned("estimateGas", DecimalString(BaseGas))

\* TransactionSigner.estimateGas; data is the string as its characters, and
\* dataLength * 16 with dataLength = (length - 2) / 2 is taken as
\* (length - 2) * 16 / 2, which is the same number and a whole one
estimateGas(transaction) ==
  IF /\ "data" \in DOMAIN transaction
     /\ transaction.data # <<>>
     /\ transaction.data # <<"0", "x">>
     /\ Len(transaction.data) > 2
    THEN Returned("estimateGas",
           DecimalString(BaseGas
                           + ((Len(transaction.data) - 2) * GasPerByte) \div 2
                           + ExecutionGas))
  ELSE Returned("estimateGas", DecimalString(BaseGas))

\* a string that BigNumber.from and parseUnits read as a decimal number
IsDecimal(string) == "decimal" \in DOMAIN string

\* ethers.utils.parseUnits(value, 'gwei'): the amount in wei, kept as
\* mantissa * 10^exponent
parseUnitsGwei(value) == [mantissa |-> value.decimal, exponent |-> 9]

\* ethers.utils.formatEther: the decimal string of the amount in ether,
\* which is mantissa * 10^exponent
formatEther(wei) == [mantissa |-> wei.mantissa, exponent |-> wei.exponent - 18]

ErrFee == "Failed to calculate transaction fee"
ErrFeeMissing == "Failed to calculate transaction fee: Either gasPrice or maxFeePerGas must be provided"

\* calculateTransactionFee that looks at gasPrice first
calculateTransactionFeeLegacyFirst(gasLimit, gasPrice, maxFeePerGas) ==
  IF ~IsDecimal(gasLimit)
    THEN Threw("calculateTransactionFee", ErrFee)
  ELSE IF gasPrice # Null
    THEN IF ~IsDecimal(gasPrice)
           THEN Threw("calculateTransactionFee", ErrFee)
         ELSE Returned("calculateTransactionFee",
                formatEther([parseUnitsGwei(gasPrice) EXCEPT
                               !.mantissa = gasLimit.decimal * @]))
  ELSE IF maxFeePerGas # Null
    THEN IF ~IsDecimal(maxFeePerGas)
           THEN Threw("calculateTransactionFee", ErrFee)
         ELSE Returned("calculateTransactionFee",
                formatEther([parseUnitsGwei(maxFeePerGas) EXCEPT
                               !.mantissa = gasLimit.decimal * @]))
  ELSE Threw("calculateTransactionFee", ErrFeeMissing)

\* TransactionSigner.calculateTransactionFee; an argument left out is Null
calculateTransactionFee(gasLimit, gasPrice, maxFeePerGas) ==
  IF ~IsDecimal(gasLimit)
    THEN Threw("calculateTransactionFee", ErrFee)
  ELSE IF maxFeePerGas # Null
    THEN IF ~IsDecimal(maxFeePerGas)
           THEN Threw("calculateTransactionFee", ErrFee)
         ELSE Returned("calculateTransactionFee",
                formatEther([parseUnitsGwei(maxFeePerGas) EXCEPT
                               !.mantissa = gasLimit.decimal * @]))
  ELSE IF gasPrice # Null
    THEN IF ~IsDecimal(gasPrice)
           THEN Threw("calculateTransactionFee", ErrFee)
         ELSE Returned("calculateTransactionFee",
                formatEther([parseUnitsGwei(gasPrice) EXCEPT
                               !.mantissa = gasLimit.decimal * @]))
  ELSE Threw("calculateTransactionFee", ErrFeeMissing)

\* TransactionSigner.getTransactionHash of a SignedTransaction object
getTransactionHash(signedTransaction) == signedTransaction.hash

\* a signed-transaction string that ethers.utils.parseTransaction decodes
\* (a serialized transaction, signed or not) or throws on
Decodable(signedTx) == "to" \in DOMAIN signedTx
HasSignature(signedTx) == "signedBy" \in DOMAIN signedTx

\* the result verifyTransactionSignature gives for a payload it cannot
\* decode, and for one without a sender
Unverified == [hash |-> "0x", isValid |-> FALSE, signer |-> "0x"]

\* verifyTransactionSignature that lets the decoding error escape
verifyTransactionSignatureThrows(signedTx) ==
  IF ~Decodable(signedTx)
    THEN Threw("verifyTransactionSignature", "invalid raw transaction")
  ELSE IF HasSignature(signedTx)
    THEN Returned("verifyTransactionSignature",
           [hash |-> TransactionHash(signedTx), isValid |-> TRUE,
            signer |-> RecoverFrom(signedTx)])
  ELSE Returned("verifyTransactionSignature", Unverified)

\* TransactionSigner.verifyTransactionSignature
verifyTransactionSignature(signedTx) ==
  IF ~Decodable(signedTx)
    THEN Returned("verifyTransactionSignature", Unverified)
  ELSE IF HasSignature(signedTx)
    THEN Returned("verifyTransactionSignature",
           [hash |-> TransactionHash(signedTx), isValid |-> TRUE,
            signer |-> RecoverFrom(signedTx)])
  ELSE Returned("verifyTransactionSignature", Unverified)

\* TransactionSigner.signMessage: the signature of the message by the key
signMessage(message, privateKey) ==
  IF ~WalletAccepts(privateKey)
    THEN Threw("signMessage", "Failed to sign message")
  ELSE Returned("signMessage",
         [signedBy |-> WalletPublicKey(privateKey), message |-> message])

\* ethers.utils.verifyMessage: the address recovered from a signature and
\* a message, the signer's when the signature is one of that message and
\* another address when it is not
RecoverMessageSigner(message, signature) ==
  IF signature.message = message
    THEN computeAddress(signature.signedBy)
  ELSE [id |-> (computeAddress(signature.signedBy).id + 1) % CurveOrder,
        form |-> "mixed"]

\* verifyMessageSignature that compares the addresses as they are written
verifyMessageSignatureCaseSensitive(message, signature, expectedSigner) ==
  IF "signedBy" \notin DOMAIN signature
    THEN Returned("verifyMessageSignature", FALSE)
  ELSE Returned("verifyMessageSignature",
         RecoverMessageSigner(message, signature) = expectedSigner)

\* TransactionSigner.verifyMessageSignature; a signature that is not one
\* makes the recovery throw, which is caught
verifyMessageSignature(message, signature, expectedSigner) ==
  IF "signedBy" \notin DOMAIN signature
    THEN Returned("verifyMessageSignature", FALSE)
  ELSE Returned("verifyMessageSignature",
         toLowerCase(RecoverMessageSigner(message, signature))
           = toLowerCase(expectedSigner))

\* ------------------------------- SpecTS : the TransactionSigner API
\* every combination of the optional fee fields of a request
AllTransactions == { Transaction(g, m, p) : g, m, p \in BOOLEAN }

\* the strings a caller passes to verifyTransactionSignature: not a
\* transaction, an unsigned transaction, and what signTransaction returned
Payloads(last) ==
  { [garbage |-> "zz"], [to |-> "0xabc", fee |-> "legacy"] }
    \cup (IF last.op = "signTransaction" /\ last.ok
            THEN { last.val.rawTransaction } ELSE {})

SignerSignTransaction ==
  \E transaction \in AllTransactions, privateKey \in SplitKeys :
    /\ ret' = signTransaction(transaction, privateKey)
    /\ call' = [privateKey |-> privateKey, op |-> "signTransaction",
                transaction |-> transaction]
    /\ UNCHANGED <<initialized, keyCache, resp, hostShares, phase,
                   apVars, cmVars, osVars>>

SignerGetTransactionHash ==
  /\ ret.op = "signTransaction" /\ ret.ok
  /\ ret' = Returned("getTransactionHash", getTransactionHash(ret.val))
  /\ call' = [op |-> "getTransactionHash", signed |-> ret.val]
  /\ UNCHANGED <<initialized, keyCache, resp, hostShares, phase,
                 apVars, cmVars, osVars>>

SignerVerifyTransactionSignature ==
  \E signedTx \in Payloads(ret) :
    /\ ret' = verifyTransactionSignature(signedTx)
    /\ call' = [privateKey |-> IF ret.op = "signTransaction" /\ ret.ok
                                 THEN call.privateKey ELSE Null, op |-> "verifyTransactionSignature",
                signedTx |-> signedTx,
                signed |-> IF ret.op = "signTransaction" /\ ret.ok
                             THEN ret.val ELSE Null]
    /\ UNCHANGED <<initialized, keyCache, resp, hostShares, phase,
                   apVars, cmVars, osVars>>

\* the longest batch a caller passes
MaxBatch == 2

\* the requests of a batch: two that sign, to different recipients, and
\* one whose recipient is not an address
BatchTransactions ==
  { Transaction(TRUE, FALSE, FALSE),
    [Transaction(TRUE, FALSE, FALSE) EXCEPT !.to = "0xdef"],
    [Transaction(TRUE, FALSE, FALSE) EXCEPT !.to = "zz"] }

Batches == UNION { [1 .. n -> BatchTransactions] : n \in 0 .. MaxBatch }

SignerBatchSignTransactions ==
  \E transactions \in Batches, privateKey \in SplitKeys :
    \E out \in { batchSignTransactions(transactions, privateKey) } :
      /\ ret' = out.ret
      /\ call' = [privateKey |-> privateKey, op |-> "batchSignTransactions",
                  transactions |-> transactions, signCalls |-> out.signCalls]
      /\ UNCHANGED <<initialized, keyCache, resp, hostShares, phase,
                     apVars, cmVars, osVars>>

\* the hex string of a payload of so many bytes
HexData(byteLength) == <<"0", "x">> \o [i \in 1 .. 2 * byteLength |-> "a"]

\* the data of the requests passed to estimateGas: the empty string, "0x",
\* payloads of 1, 2 and 100 bytes, and a string of an odd number of digits
DataInputs ==
  { <<>>, <<"0", "x">>, HexData(1), HexData(2), HexData(100),
    <<"0", "x", "a", "b", "c">> }

SignerEstimateGas ==
  \E transaction \in { [to |-> "0xabc"] }
                        \cup { [data |-> d, to |-> "0xabc"] : d \in DataInputs } :
    /\ ret' = estimateGas(transaction)
    /\ call' = [op |-> "estimateGas", transaction |-> transaction]
    /\ UNCHANGED <<initialized, keyCache, resp, hostShares, phase,
                   apVars, cmVars, osVars>>

\* the strings passed for gasLimit, and for a fee per gas in gwei
GasLimits == { DecimalString(21000), DecimalString(72600), [garbage |-> "zz"] }
FeesPerGas == { Null, DecimalString(20), DecimalString(30), [garbage |-> "zz"] }

SignerCalculateTransactionFee ==
  \E gasLimit \in GasLimits, gasPrice \in FeesPerGas, maxFeePerGas \in FeesPerGas :
    /\ ret' = calculateTransactionFee(gasLimit, gasPrice, maxFeePerGas)
    /\ call' = [op |-> "calculateTransactionFee", gasPrice |-> gasPrice,
                maxFeePerGas |-> maxFeePerGas, gasLimit |-> gasLimit]
    /\ UNCHANGED <<initialized, keyCache, resp, hostShares, phase,
                   apVars, cmVars, osVars>>

Messages == {"hello", "bye"}

SignerSignMessage ==
  \E message \in Messages, privateKey \in SplitKeys :
    /\ ret' = signMessage(message, privateKey)
    /\ call' = [privateKey |-> privateKey, op |-> "signMessage",
                message |-> message]
    /\ UNCHANGED <<initialized, keyCache, resp, hostShares, phase,
                   apVars, cmVars, osVars>>

SignerVerifyMessageSignature ==
  \E message \in Messages, expectedSigner \in Addresses,
     signature \in { [garbage |-> "zz"] }
        \cup (IF ret.op = "signMessage" /\ ret.ok THEN { ret.val } ELSE {}) :
    /\ ret' = verifyMessageSignature(message, signature, expectedSigner)
    /\ call' = [op |-> "verifyMessageSignature", message |-> message,
                signature |-> signature, expectedSigner |-> expectedSigner,
                signedWith |-> IF ret.op = "signMessage" /\ ret.ok /\ signature = ret.val
                                 THEN call.privateKey ELSE Null]
    /\ UNCHANGED <<initialized, keyCache, resp, hostShares, phase,
                   apVars, cmVars, osVars>>

NextTS ==
  \/ SignerSignTransaction
  \/ SignerCalculateTransactionFee
  \/ SignerEstimateGas
  \/ SignerBatchSignTransactions
  \/ SignerSignMessage
  \/ SignerVerifyMessageSignature
  \/ SignerGetTransactionHash
  \/ SignerVerifyTransactionSignature

SpecTS == InitKM /\ [][NextTS]_vars

\* ----------------------------------------------- AttestationProvider
\* hashString: the SHA-384 digest of a string, in hex
hashString(input) == [sha384 |-> input]

\* the seed of the mock measurements: ENCLAVE_MEASUREMENT_SEED, or the
\* default when it is unset or empty
MeasurementSeed(environment) ==
  IF environment.ENCLAVE_MEASUREMENT_SEED = ""
    THEN "wallet-enclave-demo"
  ELSE environment.ENCLAVE_MEASUREMENT_SEED

generateMockMeasurements(environment) ==
  [pcr0 |-> hashString(<<MeasurementSeed(environment), "-pcr0">>),
   pcr1 |-> hashString(<<MeasurementSeed(environment), "-pcr1">>),
   pcr2 |-> hashString(<<MeasurementSeed(environment), "-pcr2">>),
   pcr8 |-> hashString(<<MeasurementSeed(environment), "-pcr8">>)]

\* readRealMeasurements throws and falls back to the mock measurements
readRealMeasurements(environment) == generateMockMeasurements(environment)

\* measurements that depend on the time they are loaded at
loadMeasurementsTimed(environment) ==
  [pcr0 |-> hashString(<<MeasurementSeed(environment), "-pcr0", now>>),
   pcr1 |-> hashString(<<MeasurementSeed(environment), "-pcr1", now>>),
   pcr2 |-> hashString(<<MeasurementSeed(environment), "-pcr2", now>>),
   pcr8 |-> hashString(<<MeasurementSeed(environment), "-pcr8", now>>)]

\* loadMeasurements: the value it assigns to this.measurements
loadMeasurements(environment) ==
  IF environment.NODE_ENV = "production" /\ environment.ENCLAVE_MODE = "true"
    THEN readRealMeasurements(environment)
  ELSE generateMockMeasurements(environment)

ErrAttestationNotInitialized == "AttestationProvider not initialized"
ErrAttestation == "Failed to generate attestation"

\* the pcrs of a document that embeds the measurements
Pcrs(loaded) ==
  [n \in {0, 1, 2, 8} |->
     IF n = 0 THEN loaded.pcr0 ELSE IF n = 1 THEN loaded.pcr1
     ELSE IF n = 2 THEN loaded.pcr2 ELSE loaded.pcr8]

\* an optional Buffer argument: absent, or the bytes it holds
Buffer(bytes) == [bytes |-> bytes]

\* buffer?.toString('base64') and buffer?.toString('hex')
Base64OrUndefined(buffer) ==
  IF buffer = Null THEN Null ELSE [base64 |-> buffer.bytes]
HexOrUndefined(buffer) ==
  IF buffer = Null THEN Null ELSE [hex |-> ToHex(buffer.bytes)]

\* a document served from a cache: the one issued when the process started
AttestationDocumentCached(loaded, instance, timestamp, userData, nonce) ==
  [publicKey |-> Null,
   timestamp |-> 0,
   userData |-> Base64OrUndefined(userData),
   nonce |-> HexOrUndefined(nonce),
   moduleId |-> <<"i-", ToHex(instance)>>,
   digest |-> hashString(<<"i-", ToHex(instance), "-", 0>>),
   pcrs |-> Pcrs(loaded),
   certificate |-> "mock certificate",
   cabundle |-> <<"mock CA certificate">>]

\* the document generateAttestation builds; instance is the 8 random bytes
\* of the module id and timestamp is Date.now()
AttestationDocument(loaded, instance, timestamp, userData, nonce) ==
  [publicKey |-> Null,
   timestamp |-> timestamp,
   userData |-> Base64OrUndefined(userData),
   nonce |-> HexOrUndefined(nonce),
   moduleId |-> <<"i-", ToHex(instance)>>,
   digest |-> hashString(<<"i-", ToHex(instance), "-", timestamp>>),
   pcrs |-> Pcrs(loaded),
   certificate |-> "mock certificate",
   cabundle |-> <<"mock CA certificate">>]

\* generateAttestation without its initialization guard: reading the
\* fields of measurements while it is null throws inside the try
generateAttestationUngated(wasInitialized, loaded, instance, timestamp, userData, nonce) ==
  IF loaded = Null
    THEN Threw("generateAttestation", ErrAttestation)
  ELSE Returned("generateAttestation",
         AttestationDocument(loaded, instance, timestamp, userData, nonce))

\* AttestationProvider.generateAttestation
generateAttestation(wasInitialized, loaded, instance, timestamp, userData, nonce) ==
  IF ~wasInitialized
    THEN Threw("generateAttestation", ErrAttestationNotInitialized)
  ELSE IF loaded = Null
    THEN Threw("generateAttestation", ErrAttestation)
  ELSE Returned("generateAttestation",
         AttestationDocument(loaded, instance, timestamp, userData, nonce))

\* verifyAttestation refuses a document older than this, in milliseconds
FreshnessWindow == 300000

\* parseInt(pcr.replace('pcr', ''))
PcrNumber(pcr) ==
  IF pcr = "pcr0" THEN 0 ELSE IF pcr = "pcr1" THEN 1
  ELSE IF pcr = "pcr2" THEN 2 ELSE 8

\* verifyAttestation that also refuses a document exactly as old as the window
verifyAttestationStrictWindow(attestationDoc, expectedMeasurements, current) ==
  IF "timestamp" \notin DOMAIN attestationDoc
    THEN Returned("verifyAttestation", FALSE)
  ELSE IF current - attestationDoc.timestamp >= FreshnessWindow
    THEN Returned("verifyAttestation", FALSE)
  ELSE IF /\ expectedMeasurements # Null
          /\ \E pcr \in DOMAIN expectedMeasurements :
               attestationDoc.pcrs[PcrNumber(pcr)] # expectedMeasurements[pcr]
    THEN Returned("verifyAttestation", FALSE)
  ELSE Returned("verifyAttestation", TRUE)

\* verifyAttestation that compares only the first named measurement
verifyAttestationFirstNamed(attestationDoc, expectedMeasurements, current) ==
  IF "timestamp" \notin DOMAIN attestationDoc
    THEN Returned("verifyAttestation", FALSE)
  ELSE IF current - attestationDoc.timestamp > FreshnessWindow
    THEN Returned("verifyAttestation", FALSE)
  ELSE IF /\ expectedMeasurements # Null
          /\ "pcr0" \in DOMAIN expectedMeasurements
          /\ attestationDoc.pcrs[0] # expectedMeasurements.pcr0
    THEN Returned("verifyAttestation", FALSE)
  ELSE Returned("verifyAttestation", TRUE)

\* AttestationProvider.verifyAttestation at the time current; a document
\* without a timestamp or pcrs makes it throw, which is caught
verifyAttestation(attestationDoc, expectedMeasurements, current) ==
  IF "timestamp" \notin DOMAIN attestationDoc
    THEN Returned("verifyAttestation", FALSE)
  ELSE IF current - attestationDoc.timestamp > FreshnessWindow
    THEN Returned("verifyAttestation", FALSE)
  ELSE IF /\ expectedMeasurements # Null
          /\ \E pcr \in DOMAIN expectedMeasurements :
               attestationDoc.pcrs[PcrNumber(pcr)] # expectedMeasurements[pcr]
    THEN Returned("verifyAttestation", FALSE)
  ELSE Returned("verifyAttestation", TRUE)

\* AttestationProvider.getExpectedMeasurements
getExpectedMeasurements(loaded) ==
  IF loaded = Null
    THEN Threw("getExpectedMeasurements", "Measurements not loaded")
  ELSE Returned("getExpectedMeasurements", loaded)

\* ------------------------------ SpecAP : the AttestationProvider API
\* the environments the process can be started in
Environments ==
  [NODE_ENV : {"development", "production"}, ENCLAVE_MODE : {"false", "true"},
   ENCLAVE_MEASUREMENT_SEED : {"", "custom-seed"}]

\* the instants Date.now() is read at: the start, and 100 seconds,
\* exactly the freshness window and one millisecond more after it
Instants == {0, 100000, FreshnessWindow, FreshnessWindow + 1}

\* the random bytes of a module id or a nonce, and optional buffers
InstanceBytes == { <<0>>, <<1>> }
OptionalBuffers == { Null, Buffer(<<1>>) }

InitAP ==
  /\ initialized = FALSE
  /\ keyCache = EmptyCache
  /\ ret = Returned("none", NoVal)
  /\ call = NoCall
  /\ resp = NoResp
  /\ hostShares = << >>
  /\ phase = "starting"
  /\ measurements = Null
  /\ attestationInitialized = FALSE
  /\ messageQueue = EmptyCache
  /\ isInitialized = FALSE
  /\ env \in Environments
  /\ now = 0
  /\ inflight = [r \in Slots |-> Idle]

\* time passes
Tick ==
  /\ \E t \in Instants : t > now /\ now' = t
  /\ UNCHANGED <<initialized, keyCache, ret, call, resp, hostShares, phase,
                 apVars, cmVars, env, inflight>>

\* AttestationProvider.initialize
AttestationInitialize ==
  /\ measurements' = loadMeasurements(env)
  /\ attestationInitialized' = TRUE
  /\ ret' = Returned("attestationInitialize", Void)
  /\ call' = [op |-> "attestationInitialize",
              wasInitialized |-> attestationInitialized]
  /\ UNCHANGED <<initialized, keyCache, resp, hostShares, phase, cmVars, osVars>>

GenerateAttestation ==
  \E instance \in InstanceBytes, userData \in OptionalBuffers,
     nonce \in OptionalBuffers :
    /\ ret' = generateAttestation(attestationInitialized, measurements,
                                  instance, now, userData, nonce)
    /\ call' = [op |-> "generateAttestation",
                wasInitialized |-> attestationInitialized]
    /\ UNCHANGED <<initialized, keyCache, resp, hostShares, phase,
                   apVars, cmVars, osVars>>

\* the documents a caller passes to verifyAttestation: not a document, the
\* one generateAttestation just returned, the one verified last, and those
\* of an enclave whose boot ramfs measurement (pcr 8) is another one
Documents ==
  LET own == (IF ret.op = "generateAttestation" /\ ret.ok THEN { ret.val } ELSE {})
               \cup (IF call.op = "verifyAttestation" /\ "pcrs" \in DOMAIN call.attestationDoc
                       THEN { call.attestationDoc } ELSE {})
  IN  { [garbage |-> "zz"] }
        \cup own
        \cup { [d EXCEPT !.pcrs = [d.pcrs EXCEPT
                   ![8] = hashString(<<"other-seed", "-pcr8">>)]] : d \in own }

\* the expected measurements a caller passes: none, the provider's own,
\* one of them, and sets that name a value the provider does not have
ExpectedMeasurements ==
  { Null, [pcr0 |-> hashString(<<"other-seed", "-pcr0">>)] }
    \cup (IF measurements = Null THEN {}
          ELSE { measurements,
                 [pcr0 |-> measurements.pcr0],
                 [pcr0 |-> measurements.pcr0, pcr8 |-> hashString(<<"other-seed", "-pcr0">>)] })

VerifyAttestation ==
  \E attestationDoc \in Documents, expectedMeasurements \in ExpectedMeasurements :
    /\ ret' = verifyAttestation(attestationDoc, expectedMeasurements, now)
    /\ call' = [op |-> "verifyAttestation", attestationDoc |-> attestationDoc,
                expectedMeasurements |-> expectedMeasurements, at |-> now,
                generated |->
                  \/ ret.op = "generateAttestation" /\ ret.ok /\ attestationDoc = ret.val
                  \/ /\ call.op = "verifyAttestation"
                     /\ call.generated
                     /\ attestationDoc = call.attestationDoc]
    /\ UNCHANGED <<initialized, keyCache, resp, hostShares, phase,
                   apVars, cmVars, osVars>>

GetMeasurements ==
  /\ ret' = Returned("getMeasurements", measurements)
  /\ call' = [op |-> "getMeasurements"]
  /\ UNCHANGED <<initialized, keyCache, resp, hostShares, phase,
                 apVars, cmVars, osVars>>

GetExpectedMeasurements ==
  /\ ret' = getExpectedMeasurements(measurements)
  /\ call' = [op |-> "getExpectedMeasurements"]
  /\ UNCHANGED <<initialized, keyCache, resp, hostShares, phase,
                 apVars, cmVars, osVars>>

GenerateNonce ==
  \E bytes \in InstanceBytes :
    /\ ret' = Returned("generateNonce", Buffer(bytes))
    /\ call' = [op |-> "generateNonce"]
    /\ UNCHANGED <<initialized, keyCache, resp, hostShares, phase,
                   apVars, cmVars, osVars>>

NextAP ==
  \/ Tick
  \/ AttestationInitialize
  \/ GenerateAttestation
  \/ VerifyAttestation
  \/ GetMeasurements
  \/ GetExpectedMeasurements
  \/ GenerateNonce

SpecAP == InitAP /\ [][NextAP]_vars

\* ---------------------------------------------- CommunicationManager
\* an absent (undefined) error string of a message
NoError == ""

\* createResponse that gives the response an id of its own
createResponseFreshId(requestId, result, error, timestamp) ==
  [id |-> "fresh", error |-> error, timestamp |-> timestamp, result |-> result,
   type |-> "response"]

\* CommunicationManager.createResponse at the time timestamp
createResponse(requestId, result, error, timestamp) ==
  [id |-> requestId, error |-> error, timestamp |-> timestamp, result |-> result,
   type |-> "response"]

\* the template string `Unknown method: ${request.method}`
UnknownMethod(method) ==
  CASE method = "generateKeys" -> "Unknown method: generateKeys"
    [] method = "reconstructKey" -> "Unknown method: reconstructKey"
    [] method = "signTransaction" -> "Unknown method: signTransaction"
    [] method = "getAttestation" -> "Unknown method: getAttestation"
    [] method = "health" -> "Unknown method: health"
    [] method = "frobnicate" -> "Unknown method: frobnicate"
    [] OTHER -> "Unknown method: undefined"

\* handleRequest whose default branch answers with an empty result
handleRequestDefaultResult(request, wasInitialized, queue, timestamp) ==
  IF request.method = "ping"
    THEN createResponse(request.id, [timestamp |-> timestamp, pong |-> TRUE],
                        NoError, timestamp)
  ELSE IF request.method = "getStatus"
    THEN createResponse(request.id,
           [initialized |-> wasInitialized, messageQueue |-> Cardinality(DOMAIN queue),
            status |-> "healthy"], NoError, timestamp)
  ELSE createResponse(request.id, [status |-> "ignored"], NoError, timestamp)

\* CommunicationManager.handleRequest: the message it resolves to
handleRequest(request, wasInitialized, queue, timestamp) ==
  IF request.method = "ping"
    THEN createResponse(request.id, [timestamp |-> timestamp, pong |-> TRUE],
                        NoError, timestamp)
  ELSE IF request.method = "getStatus"
    THEN createResponse(request.id,
           [initialized |-> wasInitialized, messageQueue |-> Cardinality(DOMAIN queue),
            status |-> "healthy"], NoError, timestamp)
  ELSE createResponse(request.id, Null, UnknownMethod(request.method), timestamp)

ErrChannelNotInitialized == "Communication manager not initialized"
ErrSend == "Failed to send message to host"

\* sendToHost that puts the message in the queue before it sends it
sendToHostStoreFirst(queue, wasInitialized, message, delivered) ==
  IF ~wasInitialized
    THEN [ret |-> Threw("sendToHost", ErrChannelNotInitialized), queue |-> queue]
  ELSE IF ~delivered
    THEN [ret |-> Threw("sendToHost", ErrSend),
          queue |-> MapSet(queue, message.id, message)]
  ELSE [ret |-> Returned("sendToHost", Void),
        queue |-> MapSet(queue, message.id, message)]

\* CommunicationManager.sendToHost; delivered tells whether the transport
\* took the message
sendToHost(queue, wasInitialized, message, delivered) ==
  IF ~wasInitialized
    THEN [ret |-> Threw("sendToHost", ErrChannelNotInitialized), queue |-> queue]
  ELSE IF ~delivered
    THEN [ret |-> Threw("sendToHost", ErrSend), queue |-> queue]
  ELSE [ret |-> Returned("sendToHost", Void),
        queue |-> MapSet(queue, message.id, message)]

\* CommunicationManager.getMessage
getMessage(queue, messageId) ==
  IF messageId \in DOMAIN queue
    THEN Returned("getMessage", queue[messageId])
  ELSE Returned("getMessage", Null)

\* CommunicationManager.removeMessage
removeMessage(queue, messageId) ==
  [ret |-> Returned("removeMessage", [deleted |-> messageId \in DOMAIN queue]),
   queue |-> MapDelete(queue, messageId)]

\* CommunicationManager.clearMessageQueue
clearMessageQueue(queue) ==
  [ret |-> Returned("clearMessageQueue", Void), queue |-> EmptyCache]

\* ----------------------------- SpecCM : the CommunicationManager API
\* the operations the Communication Boundary names
NamedOperations ==
  {"generateKeys", "reconstructKey", "signTransaction", "getAttestation",
   "health", "ping"}

\* the request messages that arrive, and the messages sent to the host
MessageIds == {"m1", "m2"}
Requests ==
  [type : {"request"}, id : MessageIds,
   method : NamedOperations \cup {"getStatus", "frobnicate"}]
OutMessages ==
  [type : {"request", "response"}, id : MessageIds, method : {"ping"}]

\* CommunicationManager.initialize
CommunicationInitialize ==
  /\ isInitialized' = TRUE
  /\ ret' = Returned("communicationInitialize", Void)
  /\ call' = [op |-> "communicationInitialize"]
  /\ UNCHANGED <<initialized, keyCache, resp, hostShares, phase,
                 apVars, messageQueue, osVars>>

SendToHost ==
  \E message \in OutMessages, delivered \in BOOLEAN :
    \E out \in { sendToHost(messageQueue, isInitialized, message, delivered) } :
      /\ ret' = out.ret
      /\ messageQueue' = out.queue
      /\ call' = [op |-> "sendToHost", message |-> message,
                  queueBefore |-> messageQueue]
      /\ UNCHANGED <<initialized, keyCache, resp, hostShares, phase,
                     apVars, isInitialized, osVars>>

HandleRequest ==
  \E request \in Requests :
    /\ ret' = Returned("handleRequest",
                 handleRequest(request, isInitialized, messageQueue, now))
    /\ call' = [op |-> "handleRequest", request |-> request]
    /\ UNCHANGED <<initialized, keyCache, resp, hostShares, phase,
                   apVars, cmVars, osVars>>

GetMessage ==
  \E messageId \in MessageIds :
    /\ ret' = getMessage(messageQueue, messageId)
    /\ call' = [op |-> "getMessage", messageId |-> messageId]
    /\ UNCHANGED <<initialized, keyCache, resp, hostShares, phase,
                   apVars, cmVars, osVars>>

RemoveMessage ==
  \E messageId \in MessageIds :
    /\ ret' = removeMessage(messageQueue, messageId).ret
    /\ messageQueue' = removeMessage(messageQueue, messageId).queue
    /\ call' = [op |-> "removeMessage", messageId |-> messageId]
    /\ UNCHANGED <<initialized, keyCache, resp, hostShares, phase,
                   apVars, isInitialized, osVars>>

ClearMessageQueue ==
  /\ ret' = clearMessageQueue(messageQueue).ret
  /\ messageQueue' = clearMessageQueue(messageQueue).queue
  /\ call' = [op |-> "clearMessageQueue"]
  /\ UNCHANGED <<initialized, keyCache, resp, hostShares, phase,
                 apVars, isInitialized, osVars>>

NextCM ==
  \/ CommunicationInitialize
  \/ SendToHost
  \/ HandleRequest
  \/ GetMessage
  \/ RemoveMessage
  \/ ClearMessageQueue

SpecCM == InitKM /\ [][NextCM]_vars

\* ------------------------------------------ Spec : the enclave server
Success(op, data) == [op |-> op, error |-> "", success |-> TRUE, data |-> data]
\* a failure response that claims success
FailureAsSuccess(op, error) ==
  [op |-> op, error |-> error, success |-> TRUE, data |-> NoVal]

\* the response of a handler's catch block
Failure(op, error) == [op |-> op, error |-> error, success |-> FALSE, data |-> NoVal]

\* the role the /generate-keys response gives the share at an index
ShareType(index) ==
  IF index = 0 THEN "enclave" ELSE IF index = 1 THEN "user" ELSE "backup"

Init == InitKM

\* start(): initialize the services, then listen; exit if that throws
Start ==
  /\ phase = "starting"
  /\ \E sodiumLoaded, production, enclaveMode, linux \in BOOLEAN :
       /\ ret' = initializeOutcome(sodiumLoaded, production, enclaveMode, linux)
       /\ initialized' = ret'.ok
       /\ phase' = IF ret'.ok THEN "listening" ELSE "exited"
       /\ call' = [op |-> "initialize"]
       /\ measurements' = IF ret'.ok THEN loadMeasurements(env) ELSE measurements
       /\ attestationInitialized' = ret'.ok
       /\ isInitialized' = ret'.ok
       /\ UNCHANGED <<messageQueue, osVars, keyCache, resp, hostShares>>

\* POST /generate-keys, the random bytes drawn from the given sets
GenerateKeysFrom(keyBytes, coefficients, shifts) ==
  /\ phase = "listening"
  /\ \E b \in keyBytes, rnd \in coefficients, shift \in shifts :
      \E keyPair \in { generateKeyPair(initialized, <<b>>) } :
      \E split \in { IF keyPair.ok
                       THEN splitPrivateKey(keyPair.val.privateKey,
                              [numShares |-> SplitShares, threshold |-> SplitThreshold],
                              rnd, shift)
                       ELSE keyPair } :
           IF ~keyPair.ok
             THEN /\ ret' = keyPair
                  /\ call' = [op |-> "generateKeyPair"]
                  /\ resp' = Failure("generateKeys", "Key generation failed")
                  /\ UNCHANGED <<apVars, cmVars, osVars, initialized, keyCache, hostShares, phase>>
           ELSE IF ~split.ok
             THEN /\ ret' = split
                  /\ call' = [numShares |-> SplitShares,
                              threshold |-> SplitThreshold,
                              privateKey |-> keyPair.val.privateKey, op |-> "splitPrivateKey"]
                  /\ resp' = Failure("generateKeys", "Key generation failed")
                  /\ UNCHANGED <<apVars, cmVars, osVars, initialized, keyCache, hostShares, phase>>
           ELSE /\ ret' = split
                /\ call' = [numShares |-> SplitShares,
                            threshold |-> SplitThreshold,
                            privateKey |-> keyPair.val.privateKey, op |-> "splitPrivateKey"]
                /\ resp' = Success("generateKeys",
                     [publicKey |-> keyPair.val.publicKey,
                      shares |-> [i \in 1 .. Len(split.val.shares) |->
                                    [encryptedShare |-> split.val.shares[i],
                                     index |-> i - 1,
                                     shareType |-> ShareType(i - 1)]],
                      walletAddress |-> getAddressFromPublicKey(keyPair.val.publicKey)])
                /\ hostShares' = split.val.shares
                /\ UNCHANGED <<apVars, cmVars, osVars, initialized, keyCache, phase>>

\* the share positions a request of the host picks from the n shares it
\* keeps: none, one fewer than the minimum, the minimum, all, every other one
RequestSelections(n) ==
  { { i \in 1 .. n : i <= k } : k \in {0, ReconstructMinimum - 1, ReconstructMinimum, n} }
    \cup { { i \in 1 .. n : i % 2 = 1 } }

\* a /reconstruct-key response that also carries the private key
ReconstructKeyResponseWithKey(privateKey) ==
  Success("reconstructKey",
    [privateKey |-> privateKey,
     publicKey |-> getPublicKeyFromPrivate(privateKey),
     walletAddress |-> getAddressFromPublicKey(getPublicKeyFromPrivate(privateKey)),
     keyReconstructed |-> TRUE])

\* the success response of /reconstruct-key for the key reconstructed
ReconstructKeyResponse(privateKey) ==
  Success("reconstructKey",
    [publicKey |-> getPublicKeyFromPrivate(privateKey),
     walletAddress |-> getAddressFromPublicKey(getPublicKeyFromPrivate(privateKey)),
     keyReconstructed |-> TRUE])

GenerateKeys ==
  GenerateKeysFrom(Byte, Coefficients(SplitThreshold - 1), CoordinateShifts)

\* POST /reconstruct-key with a share list picked in one of the given ways
ReconstructKeyFrom(selections, modes) ==
  /\ phase = "listening"
  /\ \E S \in selections, mode \in modes :
      \E shares \in { ShareList(hostShares, S, mode) } :
      \E out \in { reconstructPrivateKey(keyCache, shares) } :
         /\ (S = {} => mode = "asis")
         /\ IF Len(shares) < ReconstructMinimum
              THEN /\ resp' = Failure("reconstructKey", "Key reconstruction failed")
                   /\ ret' = Threw("reconstructKey",
                                   "Insufficient shares for key reconstruction")
                   /\ call' = [op |-> "reconstructKey", count |-> Len(shares)]
                   /\ UNCHANGED <<apVars, cmVars, osVars, initialized, keyCache,
                                  hostShares, phase>>
            ELSE /\ ret' = out.ret
                 /\ keyCache' = out.cache
                 /\ call' = [op |-> "reconstructPrivateKey", mode |-> mode,
                             count |-> Len(shares), fromKey |-> KeyString(TRUE, << >>),
                             fromThreshold |-> SplitThreshold,
                             sizeBefore |-> Cardinality(DOMAIN keyCache)]
                 /\ resp' =
                      IF ~out.ret.ok
                        THEN Failure("reconstructKey", "Key reconstruction failed")
                      ELSE ReconstructKeyResponse(out.ret.val.privateKey)
                 /\ UNCHANGED <<apVars, cmVars, osVars, initialized, hostShares, phase>>

ReconstructKey ==
  ReconstructKeyFrom(RequestSelections(Len(hostShares)), PickModes)

\* the transactions and wallet addresses of the requests
Transactions == { Transaction(TRUE, FALSE, FALSE), Transaction(FALSE, TRUE, TRUE) }
RequestAddresses == [id : 0 .. (CurveOrder - 1), form : {"mixed"}]

\* the response of /sign-transaction once the key is in hand
SignResponse(transaction, walletAddress, privateKey) ==
  LET signed == signTransaction(transaction, privateKey)
  IN  IF ~signed.ok
        THEN Failure("signTransaction", "Transaction signing failed")
      ELSE Success("signTransaction",
             [walletAddress |-> walletAddress,
              signedTransaction |-> signed.val,
              txHash |-> getTransactionHash(signed.val)])

\* POST /sign-transaction with shares in the request; out is what
\* reconstructPrivateKey(shares) returned
SignWithShares(transaction, walletAddress, shares, out) ==
    /\ ret' = out.ret
    /\ keyCache' = out.cache
    /\ call' = [op |-> "reconstructPrivateKey", mode |-> "asis",
                count |-> Len(shares), fromKey |-> KeyString(TRUE, << >>),
                fromThreshold |-> SplitThreshold,
                sizeBefore |-> Cardinality(DOMAIN keyCache)]
    /\ resp' = IF ~out.ret.ok
                 THEN Failure("signTransaction", "Transaction signing failed")
               ELSE SignResponse(transaction, walletAddress, out.ret.val.privateKey)

ErrKeyUnavailable == "Private key not available - provide SSS shares"

\* a handler that signs with a key of its own when the cache has none
SignFromCacheDefaultKey(transaction, walletAddress) ==
  \E cached \in { getCachedPrivateKey(keyCache, walletAddress) } :
    /\ ret' = cached
    /\ call' = [op |-> "getCachedPrivateKey", walletAddress |-> walletAddress]
    /\ keyCache' = keyCache
    /\ resp' = IF cached.val = Null
                 THEN SignResponse(transaction, walletAddress,
                                   KeyString(TRUE, ToHex(<<1>>)))
               ELSE SignResponse(transaction, walletAddress, cached.val.privateKey)

\* POST /sign-transaction with the key taken from the cache; the handler
\* throws when the cache has no key for the address
SignFromCache(transaction, walletAddress) ==
  \E cached \in { getCachedPrivateKey(keyCache, walletAddress) } :
    /\ ret' = IF cached.val = Null
                THEN Threw("signTransaction", ErrKeyUnavailable)
              ELSE cached
    /\ call' = [op |-> "getCachedPrivateKey", walletAddress |-> walletAddress]
    /\ keyCache' = keyCache
    /\ resp' = IF cached.val = Null
                 THEN Failure("signTransaction", "Transaction signing failed")
               ELSE SignResponse(transaction, walletAddress, cached.val.privateKey)

\* POST /sign-transaction with a request drawn from the given sets;
\* withShares = FALSE is a request without shares
SignTransactionFrom(transactions, addresses, selections) ==
  /\ phase = "listening"
  /\ \E withShares \in BOOLEAN :
      \E S \in (IF withShares THEN selections ELSE { {} }) :
      \E shares \in { ShareList(hostShares, S, "asis") } :
      \E out \in { IF withShares /\ Len(shares) >= 3
                     THEN reconstructPrivateKey(keyCache, shares)
                     ELSE [ret |-> ret, cache |-> keyCache] } :
      \E transaction \in transactions, walletAddress \in addresses :
         /\ IF withShares /\ Len(shares) >= 3
              THEN SignWithShares(transaction, walletAddress, shares, out)
              ELSE SignFromCache(transaction, walletAddress)
         /\ UNCHANGED <<apVars, cmVars, osVars, initialized, hostShares, phase>>

SignTransaction ==
  SignTransactionFrom(Transactions, RequestAddresses, RequestSelections(Len(hostShares)))

\* GET /health
Health ==
  /\ phase = "listening"
  /\ resp' = [op |-> "health", timestamp |-> now, status |-> "healthy",
              enclave |-> TRUE,
              services |-> [signer |-> TRUE, keyManager |-> TRUE,
                            attestation |-> TRUE]]
  /\ ret' = Returned("health", Void)
  /\ call' = [op |-> "health"]
  /\ UNCHANGED <<initialized, keyCache, hostShares, phase, apVars, cmVars, osVars>>

\* GET /attestation
Attestation ==
  /\ phase = "listening"
  /\ \E instance \in InstanceBytes :
      \E doc \in { generateAttestation(attestationInitialized, measurements,
                                        instance, now, Null, Null) } :
        /\ ret' = doc
        /\ call' = [op |-> "generateAttestation",
                    wasInitialized |-> attestationInitialized]
        /\ resp' = IF ~doc.ok
                     THEN Failure("getAttestation", "Attestation generation failed")
                   ELSE Success("getAttestation",
                          [measurements |-> measurements, attestation |-> doc.val])
  /\ UNCHANGED <<initialized, keyCache, hostShares, phase, apVars, cmVars, osVars>>

\* a ping request message handed to communicationManager.handleRequest
Ping ==
  /\ phase = "listening"
  /\ \E request \in { r \in Requests : r.method = "ping" } :
      \E message \in { handleRequest(request, isInitialized, messageQueue, now) } :
        /\ ret' = Returned("handleRequest", message)
        /\ call' = [op |-> "handleRequest", request |-> request]
        /\ resp' = [id |-> message.id, op |-> "ping", error |-> message.error,
                    timestamp |-> message.timestamp, result |-> message.result,
                    type |-> message.type]
  /\ UNCHANGED <<initialized, keyCache, hostShares, phase, apVars, cmVars, osVars>>

Next ==
  \/ Start
  \/ GenerateKeys
  \/ ReconstructKey
  \/ SignTransaction
  \/ Health
  \/ Attestation
  \/ Ping

Spec == Init /\ [][Next]_vars

\* FairSpec : the server with a host that keeps sending requests of each
\* kind, every one of which is served.  The host asks for wallets of two
\* keys, reconstructs from the first shares or from too few, and signs
\* without shares.
FairKeyBytes == {1, 2}
FairSelections == { {}, 1 .. ReconstructMinimum }

FairGenerateKeys ==
  GenerateKeysFrom(FairKeyBytes, Coefficients(SplitThreshold - 1), CoordinateShifts)
FairReconstructKey == ReconstructKeyFrom(FairSelections, {"asis"})
FairSignTransaction == SignTransactionFrom(Transactions, RequestAddresses, { {} })

FairNext ==
  \/ Start
  \/ FairGenerateKeys
  \/ FairReconstructKey
  \/ FairSignTransaction

FairSpec ==
  /\ Init
  /\ [][FairNext]_vars
  /\ WF_vars(Start)
  /\ WF_vars(FairGenerateKeys)
  /\ WF_vars(FairReconstructKey)
  /\ WF_vars(FairSignTransaction)

\* ------------------- SpecCC : the server with requests served concurrently
\* a handler runs from one await to the next without another one running;
\* the body of a request is parsed before its handler starts
\* the bodies of the requests: /sign-transaction with and without shares,
\* for the address of either wallet, and /reconstruct-key
InboundRequests ==
  LET none == ShareList(hostShares, {}, "asis")
      enough == ShareList(hostShares, 1 .. ReconstructMinimum, "asis")
  IN  { [privateKey |-> Null, pc |-> "received", op |-> "signTransaction",
         shares |-> shares, walletAddress |-> walletAddress,
         transaction |-> Transaction(TRUE, FALSE, FALSE)] :
          shares \in {none, enough},
          walletAddress \in { WalletAddress(KeyString(TRUE, ToHex(<<b>>))) :
                                b \in FairKeyBytes } }
        \cup { [privateKey |-> Null, pc |-> "received", op |-> "reconstructKey",
                shares |-> shares] : shares \in {none, enough} }

\* POST /generate-keys for either wallet, with one choice of the random
\* coefficients
ConcurrentGenerateKeys ==
  GenerateKeysFrom(FairKeyBytes, { [i \in 1 .. SplitThreshold - 1 |-> 1] },
                   CoordinateShifts)

\* a request arrives
Receive(r) ==
  /\ phase = "listening"
  /\ inflight[r] = Idle
  /\ \E request \in InboundRequests :
       inflight' = [inflight EXCEPT ![r] = request]
  /\ UNCHANGED <<initialized, keyCache, ret, call, resp, hostShares, phase,
                 apVars, cmVars, env, now>>

\* the handler of request r up to its first await: it has the key
\* reconstructed, or reads the cache, and keeps the key in its privateKey
Serve(r) ==
  /\ inflight[r].pc = "received"
  /\ \E out \in { IF Len(inflight[r].shares) >= 3
                     THEN reconstructPrivateKey(keyCache, inflight[r].shares)
                   ELSE IF inflight[r].op = "reconstructKey"
                     THEN [ret |-> Threw("reconstructKey",
                                         "Insufficient shares for key reconstruction"),
                           cache |-> keyCache]
                   ELSE [ret |-> getCachedPrivateKey(keyCache, inflight[r].walletAddress),
                         cache |-> keyCache] } :
       /\ ret' = out.ret
       /\ keyCache' = out.cache
       /\ call' = [op |-> "serve", request |-> inflight[r]]
       /\ IF ~out.ret.ok
            THEN /\ resp' = Failure(inflight[r].op,
                              IF inflight[r].op = "reconstructKey"
                                THEN "Key reconstruction failed"
                                ELSE "Transaction signing failed")
                 /\ inflight' = [inflight EXCEPT ![r] = Idle]
          ELSE IF out.ret.val = Null
            THEN /\ resp' = Failure("signTransaction", "Transaction signing failed")
                 /\ inflight' = [inflight EXCEPT ![r] = Idle]
          ELSE /\ resp' = resp
               /\ inflight' = [inflight EXCEPT ![r].pc = "resumed",
                                               ![r].privateKey = out.ret.val.privateKey]
  /\ UNCHANGED <<initialized, hostShares, phase, apVars, cmVars, env, now>>

\* a handler that keeps the key in a variable shared by all requests, so
\* that it resumes with the key of any request that has one
CompleteSharedKey(r) ==
  /\ inflight[r].pc = "resumed"
  /\ \E q \in Slots :
       /\ inflight[q].pc = "resumed"
       /\ resp' = IF inflight[r].op = "reconstructKey"
                    THEN ReconstructKeyResponse(inflight[q].privateKey)
                  ELSE SignResponse(inflight[r].transaction,
                                    inflight[r].walletAddress, inflight[q].privateKey)
  /\ call' = [op |-> "complete", request |-> inflight[r]]
  /\ inflight' = [inflight EXCEPT ![r] = Idle]
  /\ UNCHANGED <<initialized, keyCache, ret, hostShares, phase,
                 apVars, cmVars, env, now>>

\* the handler of request r resumes after its await with its own
\* privateKey, signs or derives the address, and responds
Complete(r) ==
  /\ inflight[r].pc = "resumed"
  /\ resp' = IF inflight[r].op = "reconstructKey"
               THEN ReconstructKeyResponse(inflight[r].privateKey)
             ELSE SignResponse(inflight[r].transaction,
                               inflight[r].walletAddress, inflight[r].privateKey)
  /\ call' = [op |-> "complete", request |-> inflight[r]]
  /\ inflight' = [inflight EXCEPT ![r] = Idle]
  /\ UNCHANGED <<initialized, keyCache, ret, hostShares, phase,
                 apVars, cmVars, env, now>>

NextCC ==
  \/ Start
  \/ ConcurrentGenerateKeys
  \/ \E r \in Slots : Receive(r)
  \/ \E r \in Slots : Serve(r)
  \/ \E r \in Slots : Complete(r)

SpecCC == Init /\ [][NextCC]_vars

\* ------------------------------------------------- claims under SpecKM
\* the bytes of a key string, and whether they are a usable private key
KeyBytes(privateKey) == BufferFromHex(privateKey.hex)
UsableKey(privateKey) ==
  /\ Len(KeyBytes(privateKey)) = 1
  /\ KeyBytes(privateKey)[1] > 0
  /\ KeyBytes(privateKey)[1] < CurveOrder

\* the last call reconstructed from untouched shares of a split of a usable key
FromSplit ==
  /\ call.op = "reconstructPrivateKey"
  /\ call.mode = "asis"
  /\ UsableKey(call.fromKey)

\* C3: round trip.  For every usable key and every split with
\* 2 <= threshold <= shareCount, reconstructing from exactly threshold of
\* the shares succeeds and returns the key that was split.
C3_RoundTrip ==
  (FromSplit /\ call.fromThreshold >= 2 /\ call.count = call.fromThreshold)
    => (ret.ok /\ KeyBytes(ret.val.privateKey) = KeyBytes(call.fromKey))

\* C4: insufficiency.  Reconstructing from fewer shares than the threshold
\* of the split fails with the insufficient-shares error, returns no key
\* and leaves the key cache as it was.
C4_Insufficiency ==
  [][ (call'.op = "reconstructPrivateKey" /\ call'.mode = "asis"
         /\ call'.count < call'.fromThreshold)
        => (~ret'.ok /\ ret'.error = ErrInsufficientShares
              /\ ret'.val = NoVal /\ keyCache' = keyCache) ]_vars

CacheSize == Cardinality(DOMAIN keyCache)

\* C6: every key cache entry maps the (lower-case) address derived from a
\* valid private key to that key; the cache changes only in a successful
\* reconstructPrivateKey, which sets the entry of the reconstructed key, or
\* in clearCachedKey / clearAllCachedKeys; a reconstruction that throws
\* leaves it as it was.
C6_CacheEntries ==
  /\ [](\A a \in DOMAIN keyCache :
          /\ WalletAccepts(keyCache[a])
          /\ toLowerCase(WalletAddress(keyCache[a])) = a)
  /\ [][ keyCache' # keyCache =>
          \/ /\ call'.op = "reconstructPrivateKey"
             /\ ret'.ok
             /\ keyCache' = MapSet(keyCache,
                   toLowerCase(WalletAddress(ret'.val.privateKey)),
                   ret'.val.privateKey)
          \/ call'.op \in {"clearCachedKey", "clearAllCachedKeys"} ]_vars

\* a reconstruction was refused as invalid while the cache held a key
C6_Witness ==
  /\ call.op = "reconstructPrivateKey"
  /\ ~ret.ok
  /\ ret.error = ErrInvalidReconstruction
  /\ CacheSize > 0

\* C7: a successful reconstruction overwrites the entry of its address:
\* the cache never holds two entries whose addresses differ only in case,
\* after a successful reconstruction a lookup of the address in any case
\* returns the key just reconstructed, and getCachedPrivateKey returns the
\* entry of the lower-cased address, or null.
C7_Overwrite ==
  /\ [](\A a, b \in DOMAIN keyCache : a.id = b.id => a = b)
  /\ []((call.op = "reconstructPrivateKey" /\ ret.ok) =>
          \A form \in AddressForms :
            getCachedPrivateKey(keyCache,
                [id |-> WalletAddress(ret.val.privateKey).id, form |-> form]).val
              = [privateKey |-> ret.val.privateKey, kind |-> "privateKey"])
  /\ [](call.op = "getCachedPrivateKey" =>
          \/ /\ ret.val.kind = "privateKey"
             /\ WalletAddress(ret.val.privateKey).id = call.walletAddress.id
          \/ /\ ret.val = Null
             /\ \A a \in DOMAIN keyCache : a.id # call.walletAddress.id)

\* a reconstruction succeeded for an address that already had an entry,
\* with another entry in the cache
C7_Witness ==
  /\ call.op = "reconstructPrivateKey"
  /\ ret.ok
  /\ call.sizeBefore = CacheSize
  /\ CacheSize >= 2

\* C8 as claimed: clearCachedKey and clearAllCachedKeys return the number
\* of entries they cleared.
C8_ReturnsCount ==
  (call.op \in {"clearCachedKey", "clearAllCachedKeys"}) =>
     ret.val = [kind |-> "count", count |-> call.sizeBefore - CacheSize]

\* C8 as amended: clearCachedKey and clearAllCachedKeys return nothing and
\* are idempotent: clearCachedKey removes the entry of the address (in
\* any case), leaves every other entry alone and changes nothing when
\* the address has no entry, after it getCachedPrivateKey of the address
\* returns null; clearAllCachedKeys leaves the cache empty.
C8_Clear ==
  /\ [][ call'.op = "clearCachedKey" =>
          /\ ret'.ok /\ ret'.val = Void
          /\ keyCache' = MapDelete(keyCache, toLowerCase(call'.walletAddress))
          /\ (\A a \in DOMAIN keyCache : a.id # call'.walletAddress.id)
                => keyCache' = keyCache
          /\ \A a \in DOMAIN keyCache' : a.id # call'.walletAddress.id
          /\ getCachedPrivateKey(keyCache', call'.walletAddress).val = Null ]_vars
  /\ [][ call'.op = "clearAllCachedKeys" =>
          /\ ret'.ok /\ ret'.val = Void
          /\ keyCache' = EmptyCache ]_vars

\* an entry was cleared by an address not in lower case, another was kept
C8_Witness ==
  /\ call.op = "clearCachedKey"
  /\ call.walletAddress.form # "lower"
  /\ call.sizeBefore = CacheSize + 1
  /\ CacheSize >= 1

\* the last call split a well-formed key string
SplitCall ==
  /\ call.op = "splitPrivateKey"
  /\ KeyBytes(call.privateKey) # << >>

C10_AllGated ==
  (~initialized /\ call.op \in {"generateKeyPair", "splitPrivateKey",
                                 "reconstructPrivateKey", "getCachedPrivateKey"})
    => (~ret.ok /\ ret.error = ErrNotInitialized)

\* C10 as amended: generateKeyPair fails with the not-initialized error
\* and produces no key pair in every state where initialize() has not
\* succeeded (the other operations are not gated on initialization).
C10_GenerateGated ==
  (~initialized /\ call.op = "generateKeyPair")
    => (~ret.ok /\ ret.error = ErrNotInitialized /\ ret.val = NoVal)

\* generateKeyPair was called after an initialize() that threw
C10_Witness ==
  /\ ~initialized
  /\ call.op = "generateKeyPair"

\* --------------------------------------------------- claims under Spec
\* C1 as claimed: no successful reconstruction, neither the call of
\* reconstructPrivateKey nor the reconstructKey operation, returns the
\* private key to its caller.
C1_NoKeyReturned ==
  /\ (call.op = "reconstructPrivateKey" /\ ret.ok) => ret.val.kind # "privateKey"
  /\ (resp.op = "reconstructKey" /\ resp.success) =>
       DOMAIN resp.data = {"walletAddress", "publicKey", "keyReconstructed"}

\* C1 as amended: the response of a successful reconstructKey operation
\* holds the wallet address and the public key of the reconstructed key
\* and the flag keyReconstructed, and nothing else; the private key is
\* returned by reconstructPrivateKey to the handler only and is stored in
\* the key cache under that address.
C1_ResponseWithoutKey ==
  (resp.op = "reconstructKey" /\ resp.success) =>
    /\ DOMAIN resp.data = {"walletAddress", "publicKey", "keyReconstructed"}
    /\ call.op = "reconstructPrivateKey" /\ ret.ok
    /\ ret.val.kind = "privateKey"
    /\ resp.data.publicKey = WalletPublicKey(ret.val.privateKey)
    /\ resp.data.walletAddress = WalletAddress(ret.val.privateKey)
    /\ resp.data.keyReconstructed
    /\ toLowerCase(resp.data.walletAddress) \in DOMAIN keyCache
    /\ keyCache[toLowerCase(resp.data.walletAddress)] = ret.val.privateKey

\* a reconstructKey request was answered with success
C1_Witness ==
  /\ resp.op = "reconstructKey"
  /\ resp.success

\* C2: the shares one recipient holds never reach the split threshold and
\* never reconstruct the key: the host, which receives the response of
\* generateKeys, cannot rebuild the private key from what it was handed.
C2_NoPartyHoldsThreshold ==
  /\ Len(hostShares) < SplitThreshold
  /\ ~reconstructPrivateKey(EmptyCache,
         ShareList(hostShares, 1 .. Len(hostShares), "asis")).ret.ok

\* the lower-case addresses a cache entry can have
CacheKeys == [id : 0 .. (CurveOrder - 1), form : {"lower"}]

\* C5: every key cache entry is eventually removed.
C5_EventuallyRemoved ==
  \A a \in CacheKeys : (a \in DOMAIN keyCache) ~> (a \notin DOMAIN keyCache)


\* ------------------------------------------------- claims under SpecTS
\* exactly one fee model: the legacy gas price alone, or the fee-market pair
ExactlyOneFeeModel(transaction) ==
  \/ /\ transaction.gasPrice
     /\ ~transaction.maxFeePerGas /\ ~transaction.maxPriorityFeePerGas
  \/ /\ ~transaction.gasPrice
     /\ transaction.maxFeePerGas /\ transaction.maxPriorityFeePerGas

\* C11: signTransaction succeeds only for a request with exactly one fee
\* model; a request with both models, with none, or with half of the
\* fee-market pair is refused and nothing is signed.
C11_ExactlyOneFeeModel ==
  (call.op = "signTransaction" /\ ret.ok) => ExactlyOneFeeModel(call.transaction)

\* the last call verified the payload that the signTransaction call before
\* it returned
VerifiedOwnPayload ==
  /\ call.op = "verifyTransactionSignature"
  /\ call.signed # Null
  /\ call.signedTx = call.signed.rawTransaction

C14_VerifyNeverFails ==
  [][call'.op = "verifyTransactionSignature" =>
       /\ ret'.ok
       /\ (~Decodable(call'.signedTx) => ret'.val = Unverified)
       /\ UNCHANGED <<initialized, keyCache, apVars, cmVars>>]_vars

C14_Witness ==
  /\ call.op = "verifyTransactionSignature"
  /\ ~Decodable(call.signedTx)
  /\ ret.ok /\ ~ret.val.isValid


\* ------------------------------------------------- claims under SpecAP
\* C19: the provider goes from uninitialized to initialized and never
\* back; generateAttestation called before initialize has completed fails
\* with the not-initialized error and gives no document; an initialized
\* provider has its measurements loaded.
C19_OneWay ==
  [][/\ attestationInitialized => attestationInitialized'
     /\ attestationInitialized' => measurements' # Null
     /\ (call'.op = "generateAttestation" /\ ~attestationInitialized) =>
          ret' = Threw("generateAttestation", ErrAttestationNotInitialized)]_vars

C19_Witness ==
  /\ call.op = "generateAttestation"
  /\ ~attestationInitialized
  /\ ~ret.ok

\* C20: once the provider is initialized no operation changes a
\* measurement, a repeated initialize included, and every document
\* generated embeds the loaded measurements.
C20_Immutable ==
  [][/\ attestationInitialized => measurements' = measurements
     /\ (call'.op = "generateAttestation" /\ ret'.ok) =>
          ret'.val.pcrs = Pcrs(measurements')]_vars

\* initialize was called again on an initialized provider, later than
\* the process start
C20_Witness ==
  /\ call.op = "attestationInitialize"
  /\ call.wasInitialized
  /\ now > 0


\* ------------------------------------------------- claims under SpecCM
\* C16: handleRequest answers every request message with one message of
\* type response that carries the id of the request, whether the method
\* succeeded, failed or is unknown.
C16_ResponseCarriesId ==
  call.op = "handleRequest" =>
    /\ ret.ok
    /\ ret.val.type = "response"
    /\ ret.val.id = call.request.id

C16_Witness ==
  /\ call.op = "handleRequest"
  /\ call.request.id = "m2"
  /\ ret.val.id = "m2"
  /\ ret.val.error # NoError

\* C17: a request message that names generateKeys, reconstructKey,
\* signTransaction, getAttestation, health or ping is dispatched to its
\* component call and answered with its result, never as an unknown
\* operation.
C17_NamedDispatched ==
  (call.op = "handleRequest" /\ call.request.method \in NamedOperations) =>
    /\ ret.val.error = NoError
    /\ ret.val.result # Null

\* C18: a request that names none of the defined operations is answered
\* with a response whose error is "unknown operation" and that has no result.
C18_UnknownOperation ==
  (call.op = "handleRequest" /\ call.request.method \notin NamedOperations) =>
    /\ ret.ok
    /\ ret.val.error = "unknown operation"
    /\ ret.val.result = Null

\* C18 as amended: a request whose method is neither ping nor getStatus
\* is answered, not thrown at, with a response message that has no result
\* and the error "Unknown method: " followed by the method name, and the
\* call changes no field of any component.
C18_UnknownMethod ==
  [][(call'.op = "handleRequest"
        /\ call'.request.method \notin {"ping", "getStatus"}) =>
       /\ ret'.ok
       /\ ret'.val.type = "response"
       /\ ret'.val.result = Null
       /\ ret'.val.error = UnknownMethod(call'.request.method)
       /\ ret'.val.error # NoError
       /\ UNCHANGED <<initialized, keyCache, apVars, cmVars>>]_vars

C18_Witness ==
  /\ call.op = "handleRequest"
  /\ call.request.method = "frobnicate"
  /\ ret.val.error = "Unknown method: frobnicate"
  /\ ret.val.result = Null


\* --------------------------------------- further claims under Spec
\* the key a /sign-transaction request signed with, by the sender of the
\* signed transaction in its response
SignedWith(privateKey) ==
  resp.data.signedTransaction.from = WalletAddress(privateKey)

\* what holds of the state a /sign-transaction request leaves
SignKeySource ==
  resp.op = "signTransaction" =>
    /\ call.op \in {"reconstructPrivateKey", "getCachedPrivateKey"}
    /\ call.op = "reconstructPrivateKey" =>
         /\ call.count >= ReconstructMinimum
         /\ resp.success <=> ret.ok
         /\ resp.success => SignedWith(ret.val.privateKey)
    /\ call.op = "getCachedPrivateKey" =>
         /\ resp.success <=> toLowerCase(call.walletAddress) \in DOMAIN keyCache
         /\ resp.success => SignedWith(keyCache[toLowerCase(call.walletAddress)])
         /\ ~resp.success => ret = Threw("signTransaction", ErrKeyUnavailable)
    /\ ~resp.success => resp.data = NoVal

\* C12: /sign-transaction reconstructs the key from the shares when the
\* request has at least the minimum of them and takes the key cache entry
\* of walletAddress otherwise; with neither it fails with the key-unavailable
\* error and signs nothing.  A key cache entry only ever appears for the
\* address of a key that a reconstruction just returned, so a request
\* without shares succeeds only after a successful reconstruction for its
\* address.
C12_KeySource ==
  [][/\ SignKeySource'
     /\ \A a \in DOMAIN keyCache' \ DOMAIN keyCache :
          /\ call'.op = "reconstructPrivateKey"
          /\ ret'.ok
          /\ a = toLowerCase(WalletAddress(ret'.val.privateKey))]_vars

C12_Witness ==
  /\ resp.op = "signTransaction"
  /\ resp.success
  /\ call.op = "getCachedPrivateKey"

\* the component calls of the last request returned what the handler needs
ComponentSucceeded == ret.ok /\ ret.val # Null

\* the operation a component call belongs to
AnsweredOperations(componentCall) ==
  CASE componentCall \in {"generateKeyPair", "splitPrivateKey"} -> {"generateKeys"}
    [] componentCall = "reconstructKey" -> {"reconstructKey"}
    [] componentCall = "reconstructPrivateKey" -> {"reconstructKey", "signTransaction"}
    [] componentCall = "getCachedPrivateKey" -> {"signTransaction"}
    [] componentCall = "generateAttestation" -> {"getAttestation"}
    [] componentCall = "health" -> {"health"}
    [] componentCall = "handleRequest" -> {"ping"}
    [] OTHER -> {"none"}

VerifiedDocument ==
  call.op = "verifyAttestation" /\ "timestamp" \in DOMAIN call.attestationDoc

\* the age of the document at the time of the verification
Age == call.at - call.attestationDoc.timestamp

\* the value a document has for a named measurement
Measured(doc, pcr) ==
  CASE pcr = "pcr0" -> doc.pcrs[0]
    [] pcr = "pcr1" -> doc.pcrs[1]
    [] pcr = "pcr2" -> doc.pcrs[2]
    [] pcr = "pcr8" -> doc.pcrs[8]

\* every measurement the caller named equals the document's
NamedMatch ==
  call.expectedMeasurements # Null =>
    \A pcr \in DOMAIN call.expectedMeasurements :
      Measured(call.attestationDoc, pcr) = call.expectedMeasurements[pcr]

\* C21: verifyAttestation returns false for a document older than the
\* 300 second freshness window even when every measurement matches, and
\* true for a document with matching measurements whose age is within the
\* window, the age of exactly 300 seconds included.
C21_Freshness ==
  VerifiedDocument =>
    /\ ret.ok
    /\ Age > 300000 => ret.val = FALSE
    /\ (Age <= 300000 /\ NamedMatch) => ret.val = TRUE

\* a document exactly 300 seconds old passed against the full measurements
C21_Witness ==
  /\ VerifiedDocument
  /\ Age = 300000
  /\ call.expectedMeasurements = measurements
  /\ ret.val = TRUE

\* C22: with expected measurements supplied verifyAttestation returns
\* true only if every named measurement equals the document's, a single
\* mismatch gives false, and for a fresh document the measurements that
\* are not named do not matter.
C22_NamedMeasurements ==
  (VerifiedDocument /\ call.expectedMeasurements # Null) =>
    /\ ret.val = TRUE => NamedMatch
    /\ ~NamedMatch => ret.val = FALSE
    /\ (NamedMatch /\ Age <= FreshnessWindow) => ret.val = TRUE

\* a document whose pcr 8 is not the one the provider has passed when
\* only pcr 0 was named
C22_Witness ==
  /\ VerifiedDocument
  /\ call.expectedMeasurements # Null
  /\ DOMAIN call.expectedMeasurements = {"pcr0"}
  /\ call.attestationDoc.pcrs[8] # measurements.pcr8
  /\ ret.val = TRUE


\* ---------------------------------------- further claims under SpecTS
\* the positions of the requests of the last batch that do not sign
FailingRequests ==
  { i \in 1 .. Len(call.transactions) :
      \/ ~WalletAccepts(call.privateKey)
      \/ call.transactions[i].to \notin {"0xabc", "0xdef"} }

\* C23: batchSignTransactions signs the requests one after the other in
\* the order given; when all sign, the result has the signed transaction
\* of each request at the request's position; when one fails, the call
\* throws the signing error, made no signTransaction call after the first
\* failing request, and returns no list.
C23_BatchAborts ==
  call.op = "batchSignTransactions" =>
    IF FailingRequests = {}
      THEN /\ ret.ok
           /\ Len(ret.val) = Len(call.transactions)
           /\ call.signCalls = Len(call.transactions)
           /\ \A i \in 1 .. Len(call.transactions) :
                /\ ret.val[i].to = call.transactions[i].to
                /\ ret.val[i].from = WalletAddress(call.privateKey)
                /\ ret.val[i].fee = "legacy"
    ELSE /\ ~ret.ok
         /\ ret.error = "Failed to batch sign transactions: Failed to sign transaction"
         /\ ret.val = NoVal
         /\ \A i \in FailingRequests : call.signCalls <= i
         /\ call.signCalls \in FailingRequests

\* a batch whose first request signs and whose second fails was aborted
C23_Witness ==
  /\ call.op = "batchSignTransactions"
  /\ Len(call.transactions) = 2
  /\ FailingRequests = {2}
  /\ ~ret.ok
  /\ call.signCalls = 2

\* the last call estimated a request whose data is "0x" and the hex digits
\* of this many bytes
EstimatedPayloadOf(byteLength) ==
  /\ call.op = "estimateGas"
  /\ "data" \in DOMAIN call.transaction
  /\ Len(call.transaction.data) = 2 + 2 * byteLength
  /\ SubSeq(call.transaction.data, 1, 2) = <<"0", "x">>

\* C24: estimateGas returns 21000 for a request without data or with the
\* data "0x", and 21000 + 16 * n + 50000 for a request whose data is a
\* payload of n >= 1 bytes, so 72600 for 100 bytes.
C24_GasEstimate ==
  call.op = "estimateGas" =>
    /\ ret.ok
    /\ "data" \notin DOMAIN call.transaction => ret.val = [decimal |-> 21000]
    /\ EstimatedPayloadOf(0) => ret.val = [decimal |-> 21000]
    /\ \A n \in 1 .. 100 :
         EstimatedPayloadOf(n) => ret.val = [decimal |-> 21000 + 16 * n + 50000]

\* the estimate for 100 bytes of data was 72600
C24_Witness == EstimatedPayloadOf(100) /\ ret.val = [decimal |-> 72600]

\* the last call was calculateTransactionFee with a numeric gas limit and
\* every fee it was given numeric
FeeOfNumbers ==
  /\ call.op = "calculateTransactionFee"
  /\ "decimal" \in DOMAIN call.gasLimit
  /\ \A fee \in {call.gasPrice, call.maxFeePerGas} :
       fee # Null => "decimal" \in DOMAIN fee

\* the decimal string of so many gwei, written in ether
GweiAsEther(gwei) == [mantissa |-> gwei, exponent |-> -9]

\* C25: calculateTransactionFee returns gasLimit times maxFeePerGas when
\* maxFeePerGas is given, with or without gasPrice, gasLimit times gasPrice
\* when only gasPrice is given, and throws the SigningError that names the
\* missing fee parameter when neither is given.
C25_FeePrecedence ==
  FeeOfNumbers =>
    /\ call.maxFeePerGas # Null =>
         /\ ret.ok
         /\ ret.val = GweiAsEther(call.gasLimit.decimal * call.maxFeePerGas.decimal)
    /\ (call.maxFeePerGas = Null /\ call.gasPrice # Null) =>
         /\ ret.ok
         /\ ret.val = GweiAsEther(call.gasLimit.decimal * call.gasPrice.decimal)
    /\ (call.maxFeePerGas = Null /\ call.gasPrice = Null) =>
         /\ ~ret.ok
         /\ ret.error = "Failed to calculate transaction fee: Either gasPrice or maxFeePerGas must be provided"

\* with a gas price of 20 and a maximal fee of 30 the fee was 21000 * 30
C25_Witness ==
  /\ FeeOfNumbers
  /\ call.gasLimit = [decimal |-> 21000]
  /\ call.gasPrice = [decimal |-> 20]
  /\ call.maxFeePerGas = [decimal |-> 30]
  /\ ret.val = GweiAsEther(630000)

\* the last call verified, for the message that was signed, the signature
\* that the signMessage call before it returned
VerifiedOwnSignature ==
  /\ call.op = "verifyMessageSignature"
  /\ call.signedWith # Null
  /\ call.signature.message = call.message

\* C26: verifyMessageSignature returns true exactly when the address
\* recovered from the signature is the expected signer whatever the case of
\* the letters, returns false and never throws for a signature that cannot
\* be recovered, and returns true for the signature signMessage made of the
\* same text when the expected signer is the address of the signing key.
C26_MessageSigner ==
  call.op = "verifyMessageSignature" =>
    /\ ret.ok
    /\ "signedBy" \notin DOMAIN call.signature => ret.val = FALSE
    /\ "signedBy" \in DOMAIN call.signature =>
         ret.val = (RecoverMessageSigner(call.message, call.signature).id
                      = call.expectedSigner.id)
    /\ VerifiedOwnSignature =>
         ret.val = (call.expectedSigner.id = WalletAddress(call.signedWith).id)

\* the signature of a key verified against the key's address in capitals
C26_Witness ==
  /\ VerifiedOwnSignature
  /\ call.expectedSigner = [WalletAddress(call.signedWith) EXCEPT !.form = "upper"]
  /\ ret.val = TRUE


\* ------------------------------------------------- claims under SpecCC
\* the key that the shares of a request combine to
KeyOfShares(shares) ==
  KeyString(TRUE, ToHex(sssCombine(
    [i \in 1 .. Len(shares) |-> BufferFromHex(shares[i].encryptedShare)])))

\* a /sign-transaction request was completed with a signed transaction
SignedConcurrently ==
  /\ call.op = "complete"
  /\ call.request.op = "signTransaction"
  /\ resp.success

\* C27: however the handlers of concurrent requests interleave, a
\* /sign-transaction request that came with shares signs with the key of
\* its own shares, and one that came without signs with the key that the
\* cache held for its wallet address, whose address that is.
C27_OwnKey ==
  SignedConcurrently =>
    /\ call.request.privateKey # Null
    /\ resp.data.signedTransaction.from = WalletAddress(call.request.privateKey)
    /\ IF Len(call.request.shares) >= 3
         THEN call.request.privateKey = KeyOfShares(call.request.shares)
       ELSE toLowerCase(WalletAddress(call.request.privateKey))
              = toLowerCase(call.request.walletAddress)

\* a request was completed while the other one held the key of another
\* wallet
C27_Witness ==
  /\ SignedConcurrently
  /\ \E q \in Slots :
       /\ inflight[q].pc = "resumed"
       /\ inflight[q].privateKey # call.request.privateKey


\* --------------------------------- claims under Spec : walletAddress
\* C28: in every successful /sign-transaction response the walletAddress
\* is the address of the sender of the signed transaction, whatever the
\* case of its letters.
C28_WalletIsSender ==
  (resp.op = "signTransaction" /\ resp.success) =>
    toLowerCase(resp.data.walletAddress)
      = toLowerCase(resp.data.signedTransaction.from)


\* ---------------------------------------- further claims under SpecCM
\* C29: sendToHost before initialize throws the not-initialized error and
\* leaves the queue as it was; a send that fails adds nothing; a send that
\* succeeds leaves its message under the message's id, in the place of any
\* earlier message of that id, and no other entry changes, so getMessage
\* of the id returns the message; clearMessageQueue leaves the queue
\* empty; handleRequest and getMessage leave it as it was.
C29_Outbox ==
  [][/\ call'.op = "sendToHost" =>
          /\ ~isInitialized =>
               /\ ret' = Threw("sendToHost", "Communication manager not initialized")
               /\ messageQueue' = messageQueue
          /\ ~ret'.ok => messageQueue' = messageQueue
          /\ ret'.ok =>
               /\ DOMAIN messageQueue' = DOMAIN messageQueue \cup {call'.message.id}
               /\ \A id \in DOMAIN messageQueue' :
                    messageQueue'[id] = IF id = call'.message.id
                                          THEN call'.message ELSE messageQueue[id]
     /\ call'.op = "getMessage" =>
          /\ messageQueue' = messageQueue
          /\ call'.messageId \in DOMAIN messageQueue =>
               ret'.val = messageQueue[call'.messageId]
          /\ call'.messageId \notin DOMAIN messageQueue => ret'.val = Null
     /\ call'.op = "clearMessageQueue" => DOMAIN messageQueue' = {}
     /\ call'.op = "handleRequest" => messageQueue' = messageQueue]_vars

\* a message was sent in the place of an earlier one of the same id
C29_Witness ==
  /\ call.op = "sendToHost"
  /\ ret.ok
  /\ call.message.id \in DOMAIN call.queueBefore
  /\ call.queueBefore[call.message.id] # call.message
  /\ messageQueue[call.message.id] = call.message
  /\ DOMAIN messageQueue = DOMAIN call.queueBefore


\* ------------------------------- claims under SpecAP : the round trip
\* the last call verified a document that generateAttestation returned,
\* against the provider's own measurements
VerifiedOwnDocument ==
  /\ call.op = "verifyAttestation"
  /\ call.generated
  /\ call.expectedMeasurements = measurements

\* C30: a document that generateAttestation returned is accepted against
\* the provider's own measurements when it is verified no more than 300
\* seconds after its timestamp and rejected when it is verified later;
\* every generateAttestation call returns a document whose timestamp is
\* the time of the call, so never an earlier document again, and never
\* one earlier than the document of the call before.
C30_RoundTrip ==
  [][/\ (call'.op = "verifyAttestation" /\ call'.generated
           /\ call'.expectedMeasurements = measurements') =>
          ret'.val = (call'.at - call'.attestationDoc.timestamp <= 300000)
     /\ (call'.op = "generateAttestation" /\ ret'.ok /\ now' = now) =>
          /\ ret'.val.timestamp = now
          /\ (ret.op = "generateAttestation" /\ ret.ok) =>
               ret'.val.timestamp >= ret.val.timestamp]_vars

\* a generated document was accepted 200 seconds after it was issued,
\* the clock being past zero when it was issued
C30_Witness ==
  /\ VerifiedOwnDocument
  /\ call.attestationDoc.timestamp > 0
  /\ call.at - call.attestationDoc.timestamp = 200000
  /\ ret.val = TRUE

====
